---- MODULE Spec2Model ----
(***************************************************************************)
(* Model of the corpus ingestion pipeline of src/corpus/ingest.py:         *)
(* the section parser, the paragraph chunker, the source fetcher and the   *)
(* ingestion driver.  Text is a sequence of one-character strings; a       *)
(* Telugu code point is written "uXXXX".  A Python dict is a sequence of   *)
(* [k, v] records in insertion order.  An Optional[str] is <<>> for None   *)
(* and <<s>> for the string s.                                             *)
(***************************************************************************)
EXTENDS Integers, Sequences, FiniteSets, TLC

VARIABLES
    pc,            \* position of the running operation
    text,          \* parse_structured_sections: the argument
    lines,         \* text.splitlines()
    pos,           \* number of lines the for loop has consumed
    sections,      \* Dict[str, List[str]] of fragments
    current_key,   \* Optional canonical key ("None" when unset)
    buffer,        \* List[str] of pending body lines
    outcome,       \* what the operation returned or raised
    chunk_input,   \* _chunk_sections: the sections mapping
    chunk_size,    \* _chunk_sections: the size budget
    sec,           \* number of sections the outer loop has consumed
    paragraphs,    \* text.split("\n\n") of the current section
    ppos,          \* number of paragraphs the inner loop has consumed
    paragraph_buffer,  \* List[str] of the chunk being built
    current_length,    \* the length the chunker accounts for the buffer
    chunks,        \* the chunks yielded so far
    manifest_file, \* the manifest on disk
    fetcher,       \* the fetcher argument of ingest_manifest
    base_path,     \* Optional directory that relative local paths start from
    has_pdfminer,  \* whether pdfminer.six can be imported
    out_dir,       \* whether the parent directory of output_path exists
    out_file,      \* the output file: <<>> when absent, else <<its lines>>
    out_before,    \* the output file when ingest_manifest was called
    entries,       \* the entries load_manifest returned
    idx,           \* number of entries the loop has completed
    fetched,       \* the text _read_entry_text returned for the current entry
    records,       \* the records built so far
    written,       \* number of records written to the output file
    io_log,        \* the reads, override calls and requests made, in order
    stage,         \* the step of ingest_manifest that raised, if any
    overwrite,     \* download_sources: the overwrite argument
    dest_dir,      \* whether the destination directory exists
    dest_files,    \* the files of the destination directory: name -> content
    dest_before,   \* dest_files when download_sources was called
    downloads,     \* Dict[str, DownloadedSource] built so far
    line_parts     \* the pieces a heading line was written from

parse_vars == <<text, lines, pos, sections, current_key, buffer>>

chunk_vars == <<chunk_input, chunk_size, sec, paragraphs, ppos,
                paragraph_buffer, current_length, chunks>>

ingest_env == <<manifest_file, fetcher, base_path, has_pdfminer, out_before>>

ingest_vars == <<ingest_env, out_dir, out_file, entries, idx, fetched, records,
                 written, io_log, stage>>

download_vars == <<overwrite, dest_dir, dest_files, dest_before, downloads>>

line_vars == <<line_parts>>

vars == <<pc, outcome, parse_vars, chunk_vars, ingest_vars, download_vars, line_vars>>

(***************************************************************************)
(* Bounds of the explored inputs.                                          *)
(***************************************************************************)
MaxTail == 3
MaxTextLen == 7
MaxChunkSize == 7
MaxEntries == 2
MaxPathLen == 2
MaxMarkers == 2
MaxUpper == 1

(***************************************************************************)
(* Strings.                                                                *)
(***************************************************************************)
Whitespace == {" ", "\t", "\n"}

UpperCase == <<"A","B","C","D","E","F","G","H","I","J","K","L","M",
               "N","O","P","Q","R","S","T","U","V","W","X","Y","Z">>

LowerCase == <<"a","b","c","d","e","f","g","h","i","j","k","l","m",
               "n","o","p","q","r","s","t","u","v","w","x","y","z">>

LowerChar(c) ==
    IF \E i \in 1..Len(UpperCase) : UpperCase[i] = c
    THEN LowerCase[CHOOSE i \in 1..Len(UpperCase) : UpperCase[i] = c]
    ELSE c

LowerNot(s) == s

\* str.lower()
Lower(s) == [i \in 1..Len(s) |-> LowerChar(s[i])]

\* length of the longest prefix of s made of characters of set S
LeadRun(s, S) ==
    CHOOSE i \in 0..Len(s) :
        /\ \A j \in 1..i : s[j] \in S
        /\ (i = Len(s) \/ s[i + 1] \notin S)

\* length of the longest prefix of s made of characters outside set S
LeadRunNot(s, S) ==
    CHOOSE i \in 0..Len(s) :
        /\ \A j \in 1..i : s[j] \notin S
        /\ (i = Len(s) \/ s[i + 1] \in S)

\* length of the longest suffix of s made of characters of set S
TrailRun(s, S) ==
    CHOOSE i \in 0..Len(s) :
        /\ \A j \in (Len(s) - i + 1)..Len(s) : s[j] \in S
        /\ (i = Len(s) \/ s[Len(s) - i] \notin S)

Drop(s, n) == SubSeq(s, n + 1, Len(s))

\* str.strip()
Strip(s) ==
    LET l == LeadRun(s, Whitespace)
        t == Drop(s, l)
    IN  SubSeq(t, 1, Len(t) - TrailRun(t, Whitespace))

\* sep.join(parts)
RECURSIVE Join(_, _)
Join(parts, sep) ==
    IF parts = <<>> THEN <<>>
    ELSE IF Len(parts) = 1 THEN parts[1]
    ELSE parts[1] \o sep \o Join(Tail(parts), sep)

\* str.find(c) for a one-character c, 0-based, -1 when absent
Find(s, c) ==
    IF \E i \in 1..Len(s) : s[i] = c
    THEN (CHOOSE i \in 1..Len(s) : s[i] = c /\ \A j \in 1..(i - 1) : s[j] # c) - 1
    ELSE -1

\* the indexes of s, in order, that satisfy Test
Indexes(s, Test(_)) == SelectSeq([i \in 1..Len(s) |-> i], Test)

\* the pieces of s between the cuts; cut k removes s[from[k]..to[k]]
Pieces(s, from, to) ==
    [k \in 1..(Len(from) + 1) |->
        SubSeq(s, IF k = 1 THEN 1 ELSE to[k - 1] + 1,
                  IF k = Len(from) + 1 THEN Len(s) ELSE from[k] - 1)]

\* str.splitlines(): a line ends at each newline; no empty last line
SplitLines(s) ==
    LET nl  == Indexes(s, LAMBDA i : s[i] = "\n")
        all == Pieces(s, nl, nl)
    IN  IF all[Len(all)] = <<>> THEN SubSeq(all, 1, Len(all) - 1) ELSE all

\* str.split("\n\n"): cut at each blank-line separator, scanning from the
\* left without overlap (in a run of newlines the separators start at the
\* 1st, 3rd, ... newline of the run)
SplitBlank(s) ==
    LET sep == Indexes(s, LAMBDA i :
                   /\ i < Len(s)
                   /\ s[i] = "\n"
                   /\ s[i + 1] = "\n"
                   /\ TrailRun(SubSeq(s, 1, i - 1), {"\n"}) % 2 = 0)
    IN  Pieces(s, sep, [k \in 1..Len(sep) |-> sep[k] + 1])

NL == <<"\n">>
BlankLine == <<"\n", "\n">>

(***************************************************************************)
(* Python dicts (insertion ordered).                                       *)
(***************************************************************************)
DictKeys(d) == {d[i].k : i \in 1..Len(d)}

DictIndex(d, key) == CHOOSE i \in 1..Len(d) : d[i].k = key

\* d.get(key, default)
DictGet(d, key, default) ==
    IF key \in DictKeys(d) THEN d[DictIndex(d, key)].v ELSE default

\* d[key] = value: a new key goes last, a known key keeps its place
DictSet(d, key, value) ==
    IF key \in DictKeys(d)
    THEN [d EXCEPT ![DictIndex(d, key)] = [k |-> key, v |-> value]]
    ELSE Append(d, [k |-> key, v |-> value])

(***************************************************************************)
(* Heading recognition.                                                    *)
(***************************************************************************)
SECTION_ALIASES ==
    {
      [alias |-> <<"r", "i", "t", "u", "a", "l">>, key |-> "ritual_name"],
      [alias |-> <<"r", "i", "t", "u", "a", "l", " ", "n", "a", "m", "e">>, key |-> "ritual_name"],
      [alias |-> <<"p", "u", "j", "a">>, key |-> "ritual_name"],
      [alias |-> <<"p", "u", "j", "a", " ", "n", "a", "m", "e">>, key |-> "ritual_name"],
      [alias |-> <<"u0C2A", "u0C42", "u0C1C", " ", "u0C2A", "u0C47", "u0C30", "u0C41">>, key |-> "ritual_name"],
      [alias |-> <<"u0C15", "u0C3E", "u0C30", "u0C4D", "u0C2F", " ", "u0C2A", "u0C47", "u0C30", "u0C41">>, key |-> "ritual_name"],
      [alias |-> <<"u0C38", "u0C02", "u0C15", "u0C32", "u0C4D", "u0C2A">>, key |-> "sankalpa"],
      [alias |-> <<"u0C38", "u0C02", "u0C15", "u0C32", "u0C4D", "u0C2A", "u0C02">>, key |-> "sankalpa"],
      [alias |-> <<"s", "a", "n", "k", "a", "l", "p", "a">>, key |-> "sankalpa"],
      [alias |-> <<"u0C2A", "u0C26", "u0C4D", "u0C27", "u0C24", "u0C3F">>, key |-> "paddhati"],
      [alias |-> <<"u0C2A", "u0C26", "u0C4D", "u0C26", "u0C24", "u0C3F">>, key |-> "paddhati"],
      [alias |-> <<"u0C35", "u0C3F", "u0C27", "u0C3E", "u0C28", "u0C02">>, key |-> "paddhati"],
      [alias |-> <<"u0C15", "u0C4D", "u0C30", "u0C2E", "u0C02">>, key |-> "paddhati"],
      [alias |-> <<"p", "a", "d", "d", "h", "a", "t", "i">>, key |-> "paddhati"],
      [alias |-> <<"p", "r", "o", "c", "e", "d", "u", "r", "e">>, key |-> "paddhati"],
      [alias |-> <<"m", "a", "n", "t", "r", "a">>, key |-> "mantras"],
      [alias |-> <<"m", "a", "n", "t", "r", "a", "s">>, key |-> "mantras"],
      [alias |-> <<"u0C2E", "u0C02", "u0C24", "u0C4D", "u0C30", "u0C3E", "u0C32", "u0C41">>, key |-> "mantras"],
      [alias |-> <<"u0C27", "u0C4D", "u0C2F", "u0C3E", "u0C28", "u0C02">>, key |-> "mantras"],
      [alias |-> <<"c", "o", "m", "m", "e", "n", "t", "a", "r", "y">>, key |-> "commentary"],
      [alias |-> <<"u0C35", "u0C4D", "u0C2F", "u0C3E", "u0C16", "u0C4D", "u0C2F">>, key |-> "commentary"],
      [alias |-> <<"u0C35", "u0C4D", "u0C2F", "u0C3E", "u0C16", "u0C4D", "u0C2F", "u0C3E", "u0C28", "u0C02">>, key |-> "commentary"]
    }

REQUIRED_KEYS == {"ritual_name", "sankalpa", "paddhati", "mantras", "commentary"}

NoKey == "None"

Markers == {"#", "*"}

\* _HEADING_RE on a stripped line: <<>> when there is no match, else
\* <<heading>> with the text of the group "heading"
HEADING_RE(stripped) ==
    LET p  == LeadRun(stripped, Markers)
        r1 == Drop(stripped, p)
        x  == LeadRunNot(r1, Markers \cup {":"})
        r2 == Drop(r1, x)
        r3 == Drop(r2, LeadRun(r2, Markers))
        r4 == Drop(r3, LeadRun(r3, Whitespace))
        r5 == IF r4 # <<>> /\ r4[1] = ":" THEN Tail(r4) ELSE r4
        r6 == Drop(r5, LeadRun(r5, Whitespace))
        w1 == LeadRun(SubSeq(r1, 1, x), Whitespace)
        h  == Drop(SubSeq(r1, 1, x), IF w1 = x THEN x - 1 ELSE w1)
        hl == IF w1 = x THEN 1 ELSE Len(h) - TrailRun(h, Whitespace)
    IN  IF x > 0 /\ r6 = <<>> THEN <<SubSeq(h, 1, hl)>> ELSE <<>>

AliasNames == {a.alias : a \in SECTION_ALIASES}

\* _match_heading(line)
match_heading(line) ==
    LET stripped == Strip(line)
        match == HEADING_RE(stripped)
        colon_index == Find(stripped, ":")
        candidate == Strip(SubSeq(stripped, 1, colon_index))
    IN  IF stripped = <<>> THEN <<>>
        ELSE IF match # <<>> THEN <<Strip(match[1])>>
        ELSE IF colon_index > 0 /\ Lower(candidate) \in AliasNames THEN <<candidate>>
        ELSE <<>>

\* _normalise_heading(raw_heading)
normalise_heading(raw_heading) ==
    LET key == Lower(Strip(raw_heading))
    IN  IF key \in AliasNames
        THEN (CHOOSE a \in SECTION_ALIASES : a.alias = key).key
        ELSE NoKey

(***************************************************************************)
(* parse_structured_sections.                                              *)
(***************************************************************************)
NonEmpty(s) == s # <<>>

FlushOverwrite(secs, key, buf) ==
    DictSet(secs, key, <<Strip(Join(buf, NL))>>)

\* sections[current_key] = [*sections.get(current_key, []), "\n".join(buffer).strip()]
Flush(secs, key, buf) ==
    DictSet(secs, key, Append(DictGet(secs, key, <<>>), Strip(Join(buf, NL))))

\* the canonical key a line switches to, NoKey when the line is body text
Canonical(line) ==
    LET heading == match_heading(line)
    IN  IF heading # <<>> /\ heading[1] # <<>>
        THEN normalise_heading(heading[1])
        ELSE NoKey

ParseLineFlushesToNew(st, line) ==
    IF Canonical(line) # NoKey
    THEN [sections    |-> IF st.current_key # NoKey
                          THEN Flush(st.sections, Canonical(line), st.buffer)
                          ELSE st.sections,
          current_key |-> Canonical(line),
          buffer      |-> <<>>]
    ELSE [st EXCEPT !.buffer = Append(@, line)]

\* the line is a heading through the branch "Heading: text" of _match_heading
InlineForm(line) == HEADING_RE(Strip(line)) = <<>> /\ Canonical(line) # NoKey

\* stripped[colon_index + 1:], what such a line carries after its colon
InlineText(line) ==
    SubSeq(Strip(line), Find(Strip(line), ":") + 2, Len(Strip(line)))

ParseLineKeepsInlineText(st, line) ==
    IF Canonical(line) # NoKey
    THEN [sections    |-> IF st.current_key # NoKey
                          THEN Flush(st.sections, st.current_key, st.buffer)
                          ELSE st.sections,
          current_key |-> Canonical(line),
          buffer      |-> IF InlineForm(line) THEN <<InlineText(line)>> ELSE <<>>]
    ELSE [st EXCEPT !.buffer = Append(@, line)]

ParseLineKeepsPreamble(st, line) ==
    IF Canonical(line) # NoKey
    THEN [sections    |-> IF st.current_key # NoKey
                          THEN Flush(st.sections, st.current_key, st.buffer)
                          ELSE st.sections,
          current_key |-> Canonical(line),
          buffer      |-> IF st.current_key # NoKey THEN <<>> ELSE st.buffer]
    ELSE [st EXCEPT !.buffer = Append(@, line)]

\* one iteration of the loop over text.splitlines()
ParseLine(st, line) ==
    IF Canonical(line) # NoKey
    THEN [sections    |-> IF st.current_key # NoKey
                          THEN Flush(st.sections, st.current_key, st.buffer)
                          ELSE st.sections,
          current_key |-> Canonical(line),
          buffer      |-> <<>>]
    ELSE [st EXCEPT !.buffer = Append(@, line)]

\* the flush after the loop
ParseEnd(st) ==
    IF st.current_key # NoKey
    THEN Flush(st.sections, st.current_key, st.buffer)
    ELSE st.sections

\* flattened[key] = "\n\n".join(fragment for fragment in values if fragment).strip()
Flatten(secs) ==
    [i \in 1..Len(secs) |->
        [k |-> secs[i].k,
         v |-> Strip(Join(SelectSeq(secs[i].v, NonEmpty), BlankLine))]]

MissingAbsentOnly(flat) == {key \in REQUIRED_KEYS : key \notin DictKeys(flat)}

MissingFirstOnly(flat) ==
    LET all == {key \in REQUIRED_KEYS : DictGet(flat, key, <<>>) = <<>>}
    IN  IF all = {} THEN {} ELSE {CHOOSE key \in all : TRUE}

\* missing = {key for key in _REQUIRED_KEYS if not flattened.get(key)}
Missing(flat) == {key \in REQUIRED_KEYS : DictGet(flat, key, <<>>) = <<>>}

\* the five keys in the order sorted() gives them
ALPHABETICAL == <<"commentary", "mantras", "paddhati", "ritual_name", "sankalpa">>

\* sorted(keys)
Sorted(keys) == SelectSeq(ALPHABETICAL, LAMBDA key : key \in keys)

\* validation and result of parse_structured_sections
ParseOutcome(secs) ==
    LET flattened == Flatten(secs)
        missing == Missing(flattened)
    IN  IF missing # {}
        THEN [kind |-> "raise", error |-> "ManifestLoadError",
              message |-> "Missing required sections", listed |-> Sorted(missing)]
        ELSE [kind |-> "return", value |-> flattened]

\* the loop over the lines; each state is bound to its value before the
\* next iteration uses it
RECURSIVE ParseFold(_, _)
ParseFold(st, ls) ==
    IF ls = <<>> THEN st
    ELSE CHOOSE end \in {ParseFold(next, Tail(ls)) : next \in {ParseLine(st, Head(ls))}} : TRUE

ParseStart == [sections |-> <<>>, current_key |-> NoKey, buffer |-> <<>>]

\* parse_structured_sections(text) as a function of its argument
parse_structured_sections(t) ==
    ParseOutcome(ParseEnd(ParseFold(ParseStart, SplitLines(t))))

(***************************************************************************)
(* Documents given to the parser: the first k sections of a complete       *)
(* document followed by up to MaxTail lines of TailPool.                   *)
(***************************************************************************)
BaseSections ==
    << <<<<"#", "#", " ", "R", "i", "t", "u", "a", "l", " ", "N", "a", "m", "e">>, <<"r">> >>,
       <<<<"S", "a", "n", "k", "a", "l", "p", "a", ":">>, <<"s">> >>,
       <<<<"*", "*", "P", "a", "d", "d", "h", "a", "t", "i", "*", "*">>, <<"p">> >>,
       <<<<"u0C2E", "u0C02", "u0C24", "u0C4D", "u0C30", "u0C3E", "u0C32", "u0C41">>, <<"m">> >>,
       <<<<"#", " ", "C", "o", "m", "m", "e", "n", "t", "a", "r", "y", " ", "#">>, <<"c">> >> >>

RECURSIVE BaseDoc(_)
BaseDoc(k) == IF k = 0 THEN <<>> ELSE BaseDoc(k - 1) \o BaseSections[k]

TailPool ==
    { <<"#", "#", " ", "M", "a", "n", "t", "r", "a", "s">>,
      <<"M", "A", "N", "T", "R", "A", ":", " ", "x">>,
      <<"#", "#", " ", "C", "o", "m", "m", "e", "n", "t", "a", "r", "y">>,
      <<>>,
      <<" ", "a", " ">>,
      <<"#", "#", " ", "F", "o", "o">> }

Tails == UNION {[1..n -> TailPool] : n \in 0..MaxTail}

\* what a document starts with before its sections: nothing, or a line that
\* is no heading.  A document of fewer than five sections gets such lines
\* from the pool when it has no section at all.
Preambles(k) == IF k = Len(BaseSections) THEN {<<>>, << <<"o", "m">> >>} ELSE {<<>>}

ParseInputs ==
    UNION {{Join(pre \o BaseDoc(k) \o t, NL) : pre \in Preambles(k), t \in Tails} :
              k \in 0..Len(BaseSections)}

Running == [kind |-> "running"]

\* the variables of an operation that is not running
ParseIdle ==
    /\ text = <<>>
    /\ lines = <<>>
    /\ pos = 0
    /\ sections = <<>>
    /\ current_key = NoKey
    /\ buffer = <<>>

ChunkIdle ==
    /\ chunk_input = <<>>
    /\ chunk_size = 0
    /\ sec = 0
    /\ paragraphs = <<>>
    /\ ppos = 0
    /\ paragraph_buffer = <<>>
    /\ current_length = 0
    /\ chunks = <<>>

DownloadIdle ==
    /\ line_parts = <<>>
    /\ overwrite = FALSE
    /\ dest_dir = FALSE
    /\ dest_files = <<>>
    /\ dest_before = <<>>
    /\ downloads = <<>>

IngestIdle ==
    /\ manifest_file = [kind |-> "missing"]
    /\ fetcher = "None"
    /\ base_path = <<>>
    /\ has_pdfminer = FALSE
    /\ out_dir = FALSE
    /\ out_file = <<>>
    /\ out_before = <<>>
    /\ entries = <<>>
    /\ idx = 0
    /\ fetched = <<>>
    /\ records = <<>>
    /\ written = 0
    /\ io_log = <<>>
    /\ stage = "none"

(***************************************************************************)
(* Specification of one call of parse_structured_sections.                 *)
(***************************************************************************)
ParseInit ==
    /\ text \in ParseInputs
    /\ lines = SplitLines(text)
    /\ pos = 0
    /\ sections = <<>>
    /\ current_key = NoKey
    /\ buffer = <<>>
    /\ outcome = Running
    /\ pc = "parse_loop"
    /\ ChunkIdle
    /\ IngestIdle
    /\ DownloadIdle

ParseState == [sections |-> sections, current_key |-> current_key, buffer |-> buffer]

ParseApply(st) ==
    /\ sections' = st.sections
    /\ current_key' = st.current_key
    /\ buffer' = st.buffer

\* a line that resolves to a canonical key: close the fragment, switch
ParseHeadingLine ==
    /\ pc = "parse_loop"
    /\ pos < Len(lines)
    /\ Canonical(lines[pos + 1]) # NoKey
    /\ ParseApply(ParseLine(ParseState, lines[pos + 1]))
    /\ pos' = pos + 1
    /\ UNCHANGED <<pc, text, lines, outcome, chunk_vars, ingest_vars, download_vars, line_vars>>

\* any other line is appended to the buffer
ParseBodyLine ==
    /\ pc = "parse_loop"
    /\ pos < Len(lines)
    /\ Canonical(lines[pos + 1]) = NoKey
    /\ ParseApply(ParseLine(ParseState, lines[pos + 1]))
    /\ pos' = pos + 1
    /\ UNCHANGED <<pc, text, lines, outcome, chunk_vars, ingest_vars, download_vars, line_vars>>

\* end of input: last flush, flattening, validation
ParseFinish ==
    /\ pc = "parse_loop"
    /\ pos = Len(lines)
    /\ sections' = ParseEnd(ParseState)
    /\ outcome' = ParseOutcome(sections')
    /\ pc' = "parse_done"
    /\ UNCHANGED <<text, lines, pos, current_key, buffer, chunk_vars, ingest_vars, download_vars, line_vars>>

ParseNext == ParseHeadingLine \/ ParseBodyLine \/ ParseFinish

ParseSpec == ParseInit /\ [][ParseNext]_vars

(***************************************************************************)
(* _chunk_sections.                                                        *)
(***************************************************************************)
OverflowsNoJoiner(st, paragraph, size) ==
    /\ st.current_length + Len(paragraph) > size
    /\ st.paragraph_buffer # <<>>

OverflowsAtLimit(st, paragraph, size) ==
    /\ st.current_length + Len(paragraph)
          + (IF st.paragraph_buffer # <<>> THEN 2 ELSE 0) >= size
    /\ st.paragraph_buffer # <<>>

\* current_length + len(paragraph) + (2 if paragraph_buffer else 0) > chunk_size
\*     and paragraph_buffer
Overflows(st, paragraph, size) ==
    /\ st.current_length + Len(paragraph)
          + (IF st.paragraph_buffer # <<>> THEN 2 ELSE 0) > size
    /\ st.paragraph_buffer # <<>>

ChunkJoinedByNewline(name, buf) == [section |-> name, text |-> Join(buf, <<"\n">>)]

\* yield {"section": name, "text": "\n\n".join(paragraph_buffer)}
Chunk(name, buf) == [section |-> name, text |-> Join(buf, BlankLine)]

EmitDropParagraph(st, name, paragraph) ==
    [paragraph_buffer |-> <<>>,
     current_length   |-> 0,
     chunks           |-> Append(st.chunks, Chunk(name, st.paragraph_buffer))]

\* the branch that closes the chunk and starts the next with the paragraph
Emit(st, name, paragraph) ==
    [paragraph_buffer |-> <<paragraph>>,
     current_length   |-> Len(paragraph),
     chunks           |-> Append(st.chunks, Chunk(name, st.paragraph_buffer))]

AccumulateNoJoiner(st, paragraph) ==
    [st EXCEPT !.paragraph_buffer = Append(st.paragraph_buffer, paragraph),
               !.current_length = @ + Len(paragraph)]

\* the branch that adds the paragraph to the chunk being built
Accumulate(st, paragraph) ==
    LET appended == Append(st.paragraph_buffer, paragraph)
    IN  [st EXCEPT
            !.paragraph_buffer = appended,
            !.current_length = @ + Len(paragraph)
                + (IF SubSeq(appended, 1, Len(appended) - 1) # <<>> THEN 2 ELSE 0)]

\* one iteration of the loop over text.split("\n\n")
ChunkParagraph(st, name, raw, size) ==
    LET paragraph == Strip(raw)
    IN  IF paragraph = <<>> THEN st
        ELSE IF Overflows(st, paragraph, size) THEN Emit(st, name, paragraph)
        ELSE Accumulate(st, paragraph)

ChunkFlushNever(st, name) == st.chunks

\* the flush after the loop over the paragraphs of one section
ChunkFlush(st, name) ==
    IF st.paragraph_buffer # <<>>
    THEN Append(st.chunks, Chunk(name, st.paragraph_buffer))
    ELSE st.chunks

\* the loop over the paragraphs of one section
RECURSIVE ChunkParagraphs(_, _, _, _)
ChunkParagraphs(st, name, raws, size) ==
    IF raws = <<>> THEN st
    ELSE CHOOSE end \in {ChunkParagraphs(next, name, Tail(raws), size) :
                            next \in {ChunkParagraph(st, name, Head(raws), size)}} : TRUE

\* the chunks yielded so far, after the sections of secs
RECURSIVE ChunkSections(_, _, _)
ChunkSections(out, secs, size) ==
    IF secs = <<>> THEN out
    ELSE IF secs[1].v = <<>> THEN ChunkSections(out, Tail(secs), size)
    ELSE CHOOSE end \in
             {ChunkSections(next, Tail(secs), size) :
                 next \in {ChunkFlush(ChunkParagraphs([paragraph_buffer |-> <<>>,
                                                       current_length |-> 0,
                                                       chunks |-> out],
                                                      secs[1].k, SplitBlank(secs[1].v), size),
                                      secs[1].k)}} : TRUE

RejectsNegativeOnly(size) == size < 0

\* if chunk_size <= 0
Rejects(size) == size <= 0

\* list(_chunk_sections(sections, chunk_size)) as a function of its arguments
chunk_sections(secs, size) ==
    IF Rejects(size)
    THEN [kind |-> "raise", error |-> "ManifestLoadError",
          message |-> "chunk_size must be positive"]
    ELSE [kind |-> "return", value |-> ChunkSections(<<>>, secs, size)]

(***************************************************************************)
(* Arguments given to the chunker: a mapping of at most two sections whose *)
(* texts have MaxTextLen characters in all, and a size that may be <= 0.   *)
(***************************************************************************)
ChunkAlphabet == {"a", "\n"}

Texts(n) == UNION {[1..k -> ChunkAlphabet] : k \in 0..n}

ChunkMappings ==
    {<<>>}
    \cup {<<[k |-> "mantras", v |-> t]>> : t \in Texts(MaxTextLen)}
    \cup UNION {{<<[k |-> "mantras", v |-> t], [k |-> "commentary", v |-> u]>> :
                    u \in Texts(MaxTextLen - Len(t))} : t \in Texts(MaxTextLen)}

ChunkSizes == (0 - 1)..MaxChunkSize

(***************************************************************************)
(* Specification of one consumption of _chunk_sections.                    *)
(***************************************************************************)
ChunkInit ==
    /\ chunk_input \in ChunkMappings
    /\ chunk_size \in ChunkSizes
    /\ sec = 0
    /\ paragraphs = <<>>
    /\ ppos = 0
    /\ paragraph_buffer = <<>>
    /\ current_length = 0
    /\ chunks = <<>>
    /\ outcome = Running
    /\ pc = "chunk_start"
    /\ ParseIdle
    /\ IngestIdle
    /\ DownloadIdle

ChunkState ==
    [paragraph_buffer |-> paragraph_buffer, current_length |-> current_length,
     chunks |-> chunks]

ChunkApply(st) ==
    /\ paragraph_buffer' = st.paragraph_buffer
    /\ current_length' = st.current_length
    /\ chunks' = st.chunks

\* if chunk_size <= 0: raise
ChunkReject ==
    /\ pc = "chunk_start"
    /\ Rejects(chunk_size)
    /\ outcome' = chunk_sections(chunk_input, chunk_size)
    /\ pc' = "chunk_done"
    /\ UNCHANGED <<parse_vars, chunk_vars, ingest_vars, download_vars, line_vars>>

ChunkEnter ==
    /\ pc = "chunk_start"
    /\ ~Rejects(chunk_size)
    /\ pc' = "chunk_sections"
    /\ UNCHANGED <<outcome, parse_vars, chunk_vars, ingest_vars, download_vars, line_vars>>

\* a section without text is skipped
ChunkSkipSection ==
    /\ pc = "chunk_sections"
    /\ sec < Len(chunk_input)
    /\ chunk_input[sec + 1].v = <<>>
    /\ sec' = sec + 1
    /\ UNCHANGED <<pc, outcome, parse_vars, ingest_vars, download_vars, line_vars, chunk_input, chunk_size, paragraphs, ppos,
                   paragraph_buffer, current_length, chunks>>

\* a section with text: split it, start with an empty buffer
ChunkOpenSection ==
    /\ pc = "chunk_sections"
    /\ sec < Len(chunk_input)
    /\ chunk_input[sec + 1].v # <<>>
    /\ paragraphs' = SplitBlank(chunk_input[sec + 1].v)
    /\ ppos' = 0
    /\ paragraph_buffer' = <<>>
    /\ current_length' = 0
    /\ pc' = "chunk_paragraphs"
    /\ UNCHANGED <<outcome, parse_vars, ingest_vars, download_vars, line_vars, chunk_input, chunk_size, sec, chunks>>

ChunkName == chunk_input[sec + 1].k

\* a paragraph that is empty once stripped is skipped
ChunkSkipParagraph ==
    /\ pc = "chunk_paragraphs"
    /\ ppos < Len(paragraphs)
    /\ Strip(paragraphs[ppos + 1]) = <<>>
    /\ ChunkApply(ChunkParagraph(ChunkState, ChunkName, paragraphs[ppos + 1], chunk_size))
    /\ ppos' = ppos + 1
    /\ UNCHANGED <<pc, outcome, parse_vars, ingest_vars, download_vars, line_vars, chunk_input, chunk_size, sec, paragraphs>>

\* the paragraph does not fit: yield the buffer, restart with the paragraph
ChunkEmit ==
    /\ pc = "chunk_paragraphs"
    /\ ppos < Len(paragraphs)
    /\ Strip(paragraphs[ppos + 1]) # <<>>
    /\ Overflows(ChunkState, Strip(paragraphs[ppos + 1]), chunk_size)
    /\ ChunkApply(ChunkParagraph(ChunkState, ChunkName, paragraphs[ppos + 1], chunk_size))
    /\ ppos' = ppos + 1
    /\ UNCHANGED <<pc, outcome, parse_vars, ingest_vars, download_vars, line_vars, chunk_input, chunk_size, sec, paragraphs>>

\* the paragraph fits, or the buffer is empty: append it
ChunkAccumulate ==
    /\ pc = "chunk_paragraphs"
    /\ ppos < Len(paragraphs)
    /\ Strip(paragraphs[ppos + 1]) # <<>>
    /\ ~Overflows(ChunkState, Strip(paragraphs[ppos + 1]), chunk_size)
    /\ ChunkApply(ChunkParagraph(ChunkState, ChunkName, paragraphs[ppos + 1], chunk_size))
    /\ ppos' = ppos + 1
    /\ UNCHANGED <<pc, outcome, parse_vars, ingest_vars, download_vars, line_vars, chunk_input, chunk_size, sec, paragraphs>>

\* end of the section: yield what is left in the buffer
ChunkCloseSection ==
    /\ pc = "chunk_paragraphs"
    /\ ppos = Len(paragraphs)
    /\ chunks' = ChunkFlush(ChunkState, ChunkName)
    /\ sec' = sec + 1
    /\ pc' = "chunk_sections"
    /\ UNCHANGED <<outcome, parse_vars, ingest_vars, download_vars, line_vars, chunk_input, chunk_size, paragraphs, ppos,
                   paragraph_buffer, current_length>>

\* the mapping is exhausted: the generator ends
ChunkReturn ==
    /\ pc = "chunk_sections"
    /\ sec = Len(chunk_input)
    /\ outcome' = [kind |-> "return", value |-> chunks]
    /\ pc' = "chunk_done"
    /\ UNCHANGED <<parse_vars, chunk_vars, ingest_vars, download_vars, line_vars>>

ChunkNext ==
    \/ ChunkReject
    \/ ChunkEnter
    \/ ChunkSkipSection
    \/ ChunkOpenSection
    \/ ChunkSkipParagraph
    \/ ChunkEmit
    \/ ChunkAccumulate
    \/ ChunkCloseSection
    \/ ChunkReturn

ChunkSpec == ChunkInit /\ [][ChunkNext]_vars

(***************************************************************************)
(* load_manifest.  The manifest file is missing, is not JSON, or holds a   *)
(* JSON value: a list of items or something else.  An item is a JSON       *)
(* object (a dict of fields) or some other JSON value.  The value of a     *)
(* field that the loader converts is tagged with its JSON type.            *)
(***************************************************************************)
DEFAULT_CHUNK_SIZE == 1800

TextFormat == <<"t", "e", "x", "t">>

ManifestError(msg) == [kind |-> "raise", error |-> "ManifestLoadError", message |-> msg]

JsonNumber(n) == [json |-> "number", n |-> n]

JsonString(s) == [json |-> "string", s |-> s]

JsonArray(a) == [json |-> "array", items |-> a]

JsonNull == [json |-> "null"]

Digits == <<"0", "1", "2", "3", "4", "5", "6", "7", "8", "9">>

IsDigit(c) == \E d \in 1..Len(Digits) : Digits[d] = c

\* the value of a string of decimal digits
RECURSIVE DigitsValue(_)
DigitsValue(s) ==
    IF s = <<>> THEN 0
    ELSE 10 * DigitsValue(SubSeq(s, 1, Len(s) - 1))
         + (CHOOSE d \in 1..Len(Digits) : Digits[d] = s[Len(s)]) - 1

\* int(value): a number is kept, a string is parsed (surrounding whitespace
\* and one sign allowed), anything else is a TypeError
to_int(value) ==
    IF value.json = "number" THEN [kind |-> "return", value |-> value.n]
    ELSE IF value.json = "string"
         THEN LET body   == Strip(value.s)
                  signed == body # <<>> /\ body[1] \in {"+", "-"}
                  digits == IF signed THEN Tail(body) ELSE body
              IN  IF digits # <<>> /\ \A i \in 1..Len(digits) : IsDigit(digits[i])
                  THEN [kind |-> "return",
                        value |-> IF signed /\ body[1] = "-"
                                  THEN 0 - DigitsValue(digits)
                                  ELSE DigitsValue(digits)]
                  ELSE [kind |-> "raise", error |-> "ValueError",
                        message |-> "invalid literal for int() with base 10"]
    ELSE [kind |-> "raise", error |-> "TypeError",
          message |-> "int() argument must be a string or a real number"]

\* list(value): an array gives its items, a string its characters, a number
\* or null is not iterable
to_list(value) ==
    IF value.json = "array" THEN [kind |-> "return", value |-> value.items]
    ELSE IF value.json = "string" THEN [kind |-> "return", value |-> value.s]
    ELSE [kind |-> "raise", error |-> "TypeError", message |-> "object is not iterable"]

RequiredFields == <<"id", "title", "layer", "tradition">>

\* int(raw.get("chunk_size", 1800))
ChunkSizeOf(raw) == to_int(DictGet(raw.fields, "chunk_size", JsonNumber(DEFAULT_CHUNK_SIZE)))

\* list(raw.get("region", []))
RegionOf(raw) == to_list(DictGet(raw.fields, "region", JsonArray(<<>>)))

\* list(raw.get("tags", []))
TagsOf(raw) == to_list(DictGet(raw.fields, "tags", JsonArray(<<>>)))

\* SourceManifestEntry(id=raw["id"], ..., local_path=raw.get("local_path"))
\* for an item whose fields are all there and convert
MakeEntry(raw) ==
    [id         |-> DictGet(raw.fields, "id", ""),
     title      |-> DictGet(raw.fields, "title", ""),
     layer      |-> DictGet(raw.fields, "layer", ""),
     tradition  |-> DictGet(raw.fields, "tradition", ""),
     source_url |-> DictGet(raw.fields, "source_url", ""),
     format     |-> DictGet(raw.fields, "format", TextFormat),
     chunk_size |-> ChunkSizeOf(raw).value,
     region     |-> RegionOf(raw).value,
     notes      |-> DictGet(raw.fields, "notes", ""),
     tags       |-> TagsOf(raw).value,
     local_path |-> IF "local_path" \in DictKeys(raw.fields)
                    THEN <<DictGet(raw.fields, "local_path", <<>>)>>
                    ELSE <<>>]

\* the body of the loop for one item: the isinstance test, then the keyword
\* arguments evaluated in order (the four required fields first, then the
\* conversions); only the KeyError is caught and turned into ManifestLoadError
EntryOf(raw) ==
    IF ~raw.is_object THEN ManifestError("Each manifest entry must be an object")
    ELSE IF \E n \in 1..Len(RequiredFields) :
                RequiredFields[n] \notin DictKeys(raw.fields)
         THEN ManifestError("Manifest entry missing field")
    ELSE IF ChunkSizeOf(raw).kind = "raise" THEN ChunkSizeOf(raw)
    ELSE IF RegionOf(raw).kind = "raise" THEN RegionOf(raw)
    ELSE IF TagsOf(raw).kind = "raise" THEN TagsOf(raw)
    ELSE [kind |-> "return", value |-> MakeEntry(raw)]

\* the loop over the items of the manifest, stopping at the first bad one
RECURSIVE LoadItems(_, _)
LoadItems(done, items) ==
    IF items = <<>> THEN [kind |-> "return", value |-> done]
    ELSE IF EntryOf(items[1]).kind = "raise" THEN EntryOf(items[1])
    ELSE LoadItems(Append(done, EntryOf(items[1]).value), Tail(items))

\* load_manifest(path)
load_manifest(file) ==
    IF file.kind = "missing" THEN ManifestError("Manifest file not found")
    ELSE IF file.kind = "bad_json" THEN ManifestError("Invalid JSON in manifest")
    ELSE IF ~file.is_list THEN ManifestError("Manifest root must be a JSON array of entries")
    ELSE LoadItems(<<>>, file.items)

(***************************************************************************)
(* Paths are sequences of components; an absolute path starts with "/".    *)
(* The empty sequence is the relative path ".".                            *)
(***************************************************************************)
\* the working directory of the process
Cwd == <<"/", "work">>

\* Path(s): "." components are dropped
PathOf(s) == SelectSeq(s, LAMBDA c : c # ".")

IsAbsolute(path) == path # <<>> /\ path[1] = "/"

\* "." and ".." components are folded; ".." at the root stays at the root
RECURSIVE ResolveFrom(_, _)
ResolveFrom(seen, rest) ==
    IF rest = <<>> THEN seen
    ELSE IF rest[1] = "." THEN ResolveFrom(seen, Tail(rest))
    ELSE IF rest[1] = ".."
         THEN ResolveFrom(IF Len(seen) > 1 THEN SubSeq(seen, 1, Len(seen) - 1) ELSE seen,
                          Tail(rest))
    ELSE ResolveFrom(Append(seen, rest[1]), Tail(rest))

\* Path.resolve(): a relative path starts from the working directory
Resolve(path) == ResolveFrom(<<>>, IF IsAbsolute(path) THEN path ELSE Cwd \o path)

resolve_path_JoinOnly(entry, base) ==
    IF entry.local_path = <<>> THEN <<>>
    ELSE LET candidate == PathOf(entry.local_path[1])
         IN  IF ~IsAbsolute(candidate) /\ base # <<>>
             THEN <<base[1] \o candidate>>
             ELSE <<candidate>>

\* SourceManifestEntry.resolve_path(base_path); base is <<>> for None
resolve_path(entry, base) ==
    IF entry.local_path = <<>> THEN <<>>
    ELSE LET candidate == PathOf(entry.local_path[1])
         IN  IF ~IsAbsolute(candidate) /\ base # <<>>
             THEN <<Resolve(base[1] \o candidate)>>
             ELSE <<candidate>>

(***************************************************************************)
(* The documents the sources hold.  DocWith(c) is a complete document      *)
(* whose ritual name is the one character c, so that the text of a record  *)
(* tells which source it came from.                                        *)
(***************************************************************************)
DocWith(c) == Join(<<BaseSections[1][1], <<c>>>> \o Drop(BaseDoc(5), 2), NL)

LocalDoc == DocWith("l")
PdfDoc == DocWith("d")
OverrideDoc == DocWith("f")
RemoteDoc == DocWith("r")
IncompleteDoc == Join(BaseDoc(4), NL)

ManifestPath == <<"/", "data", "manifest.json">>

\* Path(manifest_path).parent
Parent(path) == SubSeq(path, 1, Len(path) - 1)

LocalFiles ==
    { [path |-> <<"/", "data", "good.txt">>, encoding |-> "utf-8", content |-> LocalDoc],
      [path |-> <<"/", "data", "bad.txt">>,  encoding |-> "utf-8", content |-> IncompleteDoc],
      [path |-> <<"/", "srv", "good.pdf">>,  encoding |-> "pdf",   content |-> PdfDoc] }

\* Path.exists()
Exists(path) == \E f \in LocalFiles : f.path = path

FileAt(path) == CHOOSE f \in LocalFiles : f.path = path

RemoteFiles ==
    { [url |-> "http://good", encoding |-> "utf-8", content |-> RemoteDoc] }

Reachable(url) == \E f \in RemoteFiles : f.url = url

RemoteAt(url) == CHOOSE f \in RemoteFiles : f.url = url

(***************************************************************************)
(* _read_entry_text.  A result carries the I/O it performed.               *)
(***************************************************************************)
Fetched(t, io) == [kind |-> "return", value |-> t, io |-> io]

FetchFailed(error, msg, io) == [kind |-> "raise", error |-> error, message |-> msg, io |-> io]

\* _extract_pdf_text(raw_bytes)
extract_pdf_text(bytes, pdf_ok, io) ==
    IF ~pdf_ok
    THEN FetchFailed("ManifestLoadError", "pdfminer.six is required to ingest PDF sources", io)
    ELSE IF bytes.encoding = "pdf" THEN Fetched(bytes.content, io)
    ELSE FetchFailed("PDFSyntaxError", "not a PDF", io)

\* Path.read_text(encoding="utf-8")
read_text(bytes, io) ==
    IF bytes.encoding = "utf-8" THEN Fetched(bytes.content, io)
    ELSE FetchFailed("UnicodeDecodeError", "not UTF-8", io)

IsPdf(entry) == Lower(entry.format) = <<"p", "d", "f">>

NoSource(entry) == <<"has no source_url or local_path", entry.id>>

\* the part of _read_entry_text after the local file was not found
FetchElsewhere(entry, fetch, pdf_ok) ==
    IF fetch # "None" THEN Fetched(OverrideDoc, <<"override">>)
    ELSE IF entry.source_url = ""
         THEN FetchFailed("ManifestLoadError", NoSource(entry), <<>>)
    ELSE IF ~Reachable(entry.source_url)
         THEN FetchFailed("URLError", entry.source_url, <<"urlopen">>)
    ELSE IF IsPdf(entry)
         THEN extract_pdf_text(RemoteAt(entry.source_url), pdf_ok, <<"urlopen">>)
    ELSE Fetched(RemoteAt(entry.source_url).content, <<"urlopen">>)

read_entry_text_OverrideFirst(entry, base, fetch, pdf_ok) ==
    LET local_path == resolve_path(entry, base)
    IN  IF fetch # "None" THEN Fetched(OverrideDoc, <<"override">>)
        ELSE IF local_path # <<>> /\ Exists(local_path[1])
             THEN read_text(FileAt(local_path[1]), <<"read_local">>)
        ELSE FetchElsewhere(entry, fetch, pdf_ok)

read_entry_text_MissingLocalRaises(entry, base, fetch, pdf_ok) ==
    LET local_path == resolve_path(entry, base)
    IN  IF local_path # <<>> /\ ~Exists(local_path[1])
        THEN FetchFailed("FileNotFoundError", local_path[1], <<>>)
        ELSE IF local_path # <<>>
             THEN read_text(FileAt(local_path[1]), <<"read_local">>)
        ELSE FetchElsewhere(entry, fetch, pdf_ok)

\* _read_entry_text(entry, base_path, fetcher)
read_entry_text(entry, base, fetch, pdf_ok) ==
    LET local_path == resolve_path(entry, base)
    IN  IF local_path # <<>> /\ Exists(local_path[1])
        THEN IF IsPdf(entry)
             THEN extract_pdf_text(FileAt(local_path[1]), pdf_ok, <<"read_local">>)
             ELSE read_text(FileAt(local_path[1]), <<"read_local">>)
        ELSE FetchElsewhere(entry, fetch, pdf_ok)

(***************************************************************************)
(* build_corpus_record and CorpusRecord.to_json.                           *)
(***************************************************************************)
\* CorpusRecord(source_id=entry.id, ..., notes=entry.notes or "")
MakeRecord(entry, parsed, chunked) ==
    IF chunked.kind = "raise" THEN chunked
    ELSE [kind |-> "return",
          value |-> [source_id  |-> entry.id,
                     title      |-> entry.title,
                     layer      |-> entry.layer,
                     tradition  |-> entry.tradition,
                     sections   |-> parsed.value,
                     chunks     |-> chunked.value,
                     source_url |-> entry.source_url,
                     tags       |-> entry.tags,
                     region     |-> entry.region,
                     notes      |-> entry.notes]]

\* chunks = list(_chunk_sections(sections, entry.chunk_size))
ChunkRecord(entry, parsed) ==
    IF parsed.kind = "raise" THEN parsed
    ELSE CHOOSE r \in {MakeRecord(entry, parsed, chunked) :
                          chunked \in {chunk_sections(parsed.value, entry.chunk_size)}} : TRUE

\* build_corpus_record(entry, text)
build_corpus_record(entry, t) ==
    CHOOSE r \in {ChunkRecord(entry, parsed) :
                     parsed \in {parse_structured_sections(t)}} : TRUE

\* CorpusRecord.to_json(): the dict that json.dumps writes as one line
to_json(record) ==
    << [k |-> "source_id",  v |-> record.source_id],
       [k |-> "title",      v |-> record.title],
       [k |-> "layer",      v |-> record.layer],
       [k |-> "tradition",  v |-> record.tradition],
       [k |-> "sections",   v |-> record.sections],
       [k |-> "chunks",     v |-> record.chunks],
       [k |-> "source_url", v |-> record.source_url],
       [k |-> "tags",       v |-> record.tags],
       [k |-> "region",     v |-> record.region],
       [k |-> "notes",      v |-> record.notes] >>

(***************************************************************************)
(* Manifests given to ingest_manifest: at most MaxEntries items of         *)
(* ItemPool, or a file that is missing, malformed or not a list.           *)
(***************************************************************************)
Item(id, extra) ==
    [is_object |-> TRUE,
     fields |-> << [k |-> "id", v |-> id], [k |-> "title", v |-> "t"],
                   [k |-> "layer", v |-> "core"], [k |-> "tradition", v |-> "smarta"],
                   [k |-> "notes", v |-> "n"] >> \o extra]

ItemPool ==
    { Item("local",        << [k |-> "local_path", v |-> <<"good.txt">>],
                              [k |-> "source_url", v |-> "http://good"] >>),
      Item("gone",         << [k |-> "local_path", v |-> <<"missing.txt">>],
                              [k |-> "source_url", v |-> ""] >>),
      Item("gone_remote",  << [k |-> "local_path", v |-> <<"..", "data", "missing.txt">>],
                              [k |-> "source_url", v |-> "http://good"] >>),
      Item("gone_down",    << [k |-> "local_path", v |-> <<"missing.txt">>],
                              [k |-> "source_url", v |-> "http://down"] >>),
      Item("remote",       << [k |-> "source_url", v |-> "http://good"],
                              [k |-> "chunk_size", v |-> JsonNumber(1)] >>),
      Item("down",         << [k |-> "source_url", v |-> "http://down"] >>),
      Item("incomplete",   << [k |-> "local_path", v |-> <<"bad.txt">>] >>),
      Item("zero",         << [k |-> "local_path", v |-> <<"good.txt">>],
                              [k |-> "chunk_size", v |-> JsonNumber(0)] >>),
      Item("big",          << [k |-> "local_path", v |-> <<"good.txt">>],
                              [k |-> "chunk_size", v |-> JsonString(<<"b", "i", "g">>)] >>),
      Item("pdf",          << [k |-> "local_path", v |-> <<"/", "srv", "good.pdf">>],
                              [k |-> "format", v |-> <<"P", "D", "F">>] >>),
      Item("nowhere",      <<>>),
      [is_object |-> FALSE, fields |-> <<>>],
      [is_object |-> TRUE,
       fields |-> << [k |-> "id", v |-> "untitled"], [k |-> "layer", v |-> "core"],
                     [k |-> "tradition", v |-> "smarta"] >>] }

ManifestFiles ==
    { [kind |-> "missing"], [kind |-> "bad_json"],
      [kind |-> "json", is_list |-> FALSE, items |-> <<>>] }
    \cup { [kind |-> "json", is_list |-> TRUE, items |-> items] :
              items \in UNION {[1..n -> ItemPool] : n \in 0..MaxEntries} }

OldLines == <<"old">>

(***************************************************************************)
(* Specification of one call of ingest_manifest.                           *)
(***************************************************************************)
IngestInit ==
    /\ manifest_file \in ManifestFiles
    /\ fetcher \in {"None", "override"}
    /\ base_path = <<Parent(ManifestPath)>>
    /\ has_pdfminer \in BOOLEAN
    /\ out_dir \in BOOLEAN
    /\ out_file \in (IF out_dir THEN {<<>>, <<OldLines>>} ELSE {<<>>})
    /\ out_before = out_file
    /\ entries = <<>>
    /\ idx = 0
    /\ fetched = <<>>
    /\ records = <<>>
    /\ written = 0
    /\ io_log = <<>>
    /\ stage = "none"
    /\ outcome = Running
    /\ pc = "ingest_load"
    /\ ParseIdle
    /\ ChunkIdle
    /\ DownloadIdle

\* an exception leaves ingest_manifest
Raise(result, at) ==
    /\ outcome' = [kind |-> "raise", error |-> result.error, message |-> result.message]
    /\ stage' = at
    /\ pc' = "ingest_done"

\* entries = load_manifest(manifest_path) raises
IngestLoadFails ==
    /\ pc = "ingest_load"
    /\ load_manifest(manifest_file).kind = "raise"
    /\ Raise(load_manifest(manifest_file), "load")
    /\ UNCHANGED <<parse_vars, chunk_vars, ingest_env, download_vars, line_vars, out_dir, out_file, entries, idx,
                   fetched, records, written, io_log>>

\* entries = load_manifest(manifest_path)
IngestLoaded ==
    /\ pc = "ingest_load"
    /\ load_manifest(manifest_file).kind = "return"
    /\ entries' = load_manifest(manifest_file).value
    /\ pc' = "ingest_fetch"
    /\ UNCHANGED <<outcome, parse_vars, chunk_vars, ingest_env, download_vars, line_vars, out_dir, out_file, idx,
                   fetched, records, written, io_log, stage>>

EntryLast == entries[Len(entries)]

\* entry: the loop variable of for entry in entries
Entry == entries[idx + 1]

Reading == read_entry_text(Entry, base_path, fetcher, has_pdfminer)

Logged(io) == io_log \o [n \in 1..Len(io) |-> [entry |-> idx + 1, op |-> io[n]]]

\* text = _read_entry_text(entry, base_path, fetcher) raises
IngestFetchFails ==
    /\ pc = "ingest_fetch"
    /\ idx < Len(entries)
    /\ Reading.kind = "raise"
    /\ io_log' = Logged(Reading.io)
    /\ Raise(Reading, "fetch")
    /\ UNCHANGED <<parse_vars, chunk_vars, ingest_env, download_vars, line_vars, out_dir, out_file, entries, idx,
                   fetched, records, written>>

\* text = _read_entry_text(entry, base_path, fetcher)
IngestFetched ==
    /\ pc = "ingest_fetch"
    /\ idx < Len(entries)
    /\ Reading.kind = "return"
    /\ io_log' = Logged(Reading.io)
    /\ fetched' = Reading.value
    /\ pc' = "ingest_build"
    /\ UNCHANGED <<outcome, parse_vars, chunk_vars, ingest_env, download_vars, line_vars, out_dir, out_file, entries,
                   idx, records, written, stage>>

Building == build_corpus_record(Entry, fetched)

\* record = build_corpus_record(entry, text) raises
IngestBuildFails ==
    /\ pc = "ingest_build"
    /\ Building.kind = "raise"
    /\ Raise(Building, "build")
    /\ UNCHANGED <<parse_vars, chunk_vars, ingest_env, download_vars, line_vars, out_dir, out_file, entries, idx,
                   fetched, records, written, io_log>>

CollectAndWrite(recs, file, record) ==
    [records  |-> Append(recs, record),
     out_file |-> <<(IF file = <<>> THEN <<>> ELSE file[1]) \o <<to_json(record)>>>>]

\* records.append(record): the loop collects, it does not touch the file
Collect(recs, file, record) ==
    [records |-> Append(recs, record), out_file |-> file]

\* record = build_corpus_record(entry, text); records.append(record)
IngestBuilt ==
    /\ pc = "ingest_build"
    /\ Building.kind = "return"
    /\ records' = Collect(records, out_file, Building.value).records
    /\ out_file' = Collect(records, out_file, Building.value).out_file
    /\ idx' = idx + 1
    /\ pc' = "ingest_fetch"
    /\ UNCHANGED <<outcome, parse_vars, chunk_vars, ingest_env, download_vars, line_vars, out_dir, entries, fetched,
                   written, io_log, stage>>

OpenAppend(file) == IF file = <<>> THEN << <<>> >> ELSE file

\* output.open("w"): the file exists and is empty
OpenWrite(file) == << <<>> >>

\* output.parent.mkdir(parents=True, exist_ok=True); output.open("w")
IngestOpen ==
    /\ pc = "ingest_fetch"
    /\ idx = Len(entries)
    /\ out_dir' = TRUE
    /\ out_file' = OpenWrite(out_file)
    /\ pc' = "ingest_write"
    /\ UNCHANGED <<outcome, parse_vars, chunk_vars, ingest_env, download_vars, line_vars, entries, idx, fetched,
                   records, written, io_log, stage>>

\* handle.write(json.dumps(record.to_json(), ensure_ascii=False)); handle.write("\n")
IngestWriteLine ==
    /\ pc = "ingest_write"
    /\ written < Len(records)
    /\ out_file' = <<Append(out_file[1], to_json(records[written + 1]))>>
    /\ written' = written + 1
    /\ UNCHANGED <<pc, outcome, parse_vars, chunk_vars, ingest_env, download_vars, line_vars, out_dir, entries, idx,
                   fetched, records, io_log, stage>>

\* return records
IngestReturn ==
    /\ pc = "ingest_write"
    /\ written = Len(records)
    /\ outcome' = [kind |-> "return", value |-> records]
    /\ pc' = "ingest_done"
    /\ UNCHANGED <<parse_vars, chunk_vars, ingest_vars, download_vars, line_vars>>

IngestNext ==
    \/ IngestLoadFails
    \/ IngestLoaded
    \/ IngestFetchFails
    \/ IngestFetched
    \/ IngestBuildFails
    \/ IngestBuilt
    \/ IngestOpen
    \/ IngestWriteLine
    \/ IngestReturn

IngestSpec == IngestInit /\ [][IngestNext]_vars

(***************************************************************************)
(* Specification of one call of load_manifest: the manifests of            *)
(* ManifestFiles and those with items whose optional fields need a         *)
(* conversion.                                                             *)
(***************************************************************************)
LoadPool ==
    ItemPool
    \cup { Item("text_size",   << [k |-> "chunk_size", v |-> JsonString(<<" ", "1", "2">>)] >>),
           Item("null_size",   << [k |-> "chunk_size", v |-> JsonNull] >>),
           Item("flat_region", << [k |-> "region", v |-> JsonNumber(5)] >>),
           Item("tagged",      << [k |-> "tags", v |-> JsonArray(<<"x", "y">>)],
                                  [k |-> "region", v |-> JsonString(<<"a", "p">>)] >>) }

LoadFiles ==
    ManifestFiles
    \cup { [kind |-> "json", is_list |-> TRUE, items |-> items] :
              items \in UNION {[1..n -> LoadPool] : n \in 0..MaxEntries} }

LoadInit ==
    /\ manifest_file \in LoadFiles
    /\ fetcher = "None"
    /\ base_path = <<>>
    /\ has_pdfminer = FALSE
    /\ out_dir = FALSE
    /\ out_file = <<>>
    /\ out_before = <<>>
    /\ entries = <<>>
    /\ idx = 0
    /\ fetched = <<>>
    /\ records = <<>>
    /\ written = 0
    /\ io_log = <<>>
    /\ stage = "none"
    /\ outcome = Running
    /\ pc = "load_open"
    /\ ParseIdle
    /\ ChunkIdle
    /\ DownloadIdle

load_frame ==
    <<parse_vars, chunk_vars, ingest_env, out_dir, out_file, fetched, records, written,
      io_log, stage>>

\* if not manifest_path.exists(): raise
LoadNoFile ==
    /\ pc = "load_open"
    /\ manifest_file.kind = "missing"
    /\ outcome' = ManifestError("Manifest file not found")
    /\ pc' = "load_done"
    /\ UNCHANGED <<load_frame, download_vars, line_vars, entries, idx>>

\* json.loads raises JSONDecodeError
LoadBadJson ==
    /\ pc = "load_open"
    /\ manifest_file.kind = "bad_json"
    /\ outcome' = ManifestError("Invalid JSON in manifest")
    /\ pc' = "load_done"
    /\ UNCHANGED <<load_frame, download_vars, line_vars, entries, idx>>

\* if not isinstance(data, list): raise
LoadNotList ==
    /\ pc = "load_open"
    /\ manifest_file.kind = "json"
    /\ ~manifest_file.is_list
    /\ outcome' = ManifestError("Manifest root must be a JSON array of entries")
    /\ pc' = "load_done"
    /\ UNCHANGED <<load_frame, download_vars, line_vars, entries, idx>>

\* entries = []
LoadOpen ==
    /\ pc = "load_open"
    /\ manifest_file.kind = "json"
    /\ manifest_file.is_list
    /\ entries' = <<>>
    /\ pc' = "load_items"
    /\ UNCHANGED <<load_frame, download_vars, line_vars, outcome, idx>>

\* an item that is no object, lacks a field or does not convert: raise
LoadRejectItem ==
    /\ pc = "load_items"
    /\ idx < Len(manifest_file.items)
    /\ EntryOf(manifest_file.items[idx + 1]).kind = "raise"
    /\ outcome' = EntryOf(manifest_file.items[idx + 1])
    /\ pc' = "load_done"
    /\ UNCHANGED <<load_frame, download_vars, line_vars, entries, idx>>

\* entries.append(entry)
LoadAppendItem ==
    /\ pc = "load_items"
    /\ idx < Len(manifest_file.items)
    /\ EntryOf(manifest_file.items[idx + 1]).kind = "return"
    /\ entries' = Append(entries, EntryOf(manifest_file.items[idx + 1]).value)
    /\ idx' = idx + 1
    /\ UNCHANGED <<load_frame, download_vars, line_vars, outcome, pc>>

\* return entries
LoadReturn ==
    /\ pc = "load_items"
    /\ idx = Len(manifest_file.items)
    /\ outcome' = [kind |-> "return", value |-> entries]
    /\ pc' = "load_done"
    /\ UNCHANGED <<load_frame, download_vars, line_vars, entries, idx>>

LoadNext ==
    \/ LoadNoFile
    \/ LoadBadJson
    \/ LoadNotList
    \/ LoadOpen
    \/ LoadRejectItem
    \/ LoadAppendItem
    \/ LoadReturn

LoadSpec == LoadInit /\ [][LoadNext]_vars

(***************************************************************************)
(* Specification of one call of SourceManifestEntry.resolve_path: the      *)
(* entry has no local_path or one of at most MaxPathLen components,        *)
(* relative or absolute; the base directory is None, absolute or relative. *)
(***************************************************************************)
PathComponents == {"..", ".", "a", "good.txt"}

PathTails == UNION {[1..n -> PathComponents] : n \in 0..MaxPathLen}

LocalPaths == PathTails \cup {<<"/">> \o t : t \in PathTails}

ResolveEntries ==
    {MakeEntry(Item("p", <<>>))}
    \cup {MakeEntry(Item("p", << [k |-> "local_path", v |-> l] >>)) : l \in LocalPaths}

BasePaths == { <<>>, << <<"/", "data">> >>, << <<"conf">> >>, << <<"/", "data", "..", "x">> >> }

ResolveInit ==
    /\ entries \in {<<e>> : e \in ResolveEntries}
    /\ base_path \in BasePaths
    /\ manifest_file = [kind |-> "missing"]
    /\ fetcher = "None"
    /\ has_pdfminer = FALSE
    /\ out_dir = FALSE
    /\ out_file = <<>>
    /\ out_before = <<>>
    /\ idx = 0
    /\ fetched = <<>>
    /\ records = <<>>
    /\ written = 0
    /\ io_log = <<>>
    /\ stage = "none"
    /\ outcome = Running
    /\ pc = "resolve_start"
    /\ ParseIdle
    /\ ChunkIdle
    /\ DownloadIdle

\* if self.local_path is None: return None
ResolveUnset ==
    /\ pc = "resolve_start"
    /\ entries[1].local_path = <<>>
    /\ outcome' = [kind |-> "return", value |-> resolve_path(entries[1], base_path)]
    /\ pc' = "resolve_done"
    /\ UNCHANGED <<parse_vars, chunk_vars, ingest_vars, download_vars, line_vars>>

\* candidate = (base_path / candidate).resolve(); return candidate
ResolveRelative ==
    /\ pc = "resolve_start"
    /\ entries[1].local_path # <<>>
    /\ ~IsAbsolute(PathOf(entries[1].local_path[1]))
    /\ base_path # <<>>
    /\ outcome' = [kind |-> "return", value |-> resolve_path(entries[1], base_path)]
    /\ pc' = "resolve_done"
    /\ UNCHANGED <<parse_vars, chunk_vars, ingest_vars, download_vars, line_vars>>

\* return candidate: the path is absolute or there is no base directory
ResolveKeep ==
    /\ pc = "resolve_start"
    /\ entries[1].local_path # <<>>
    /\ IsAbsolute(PathOf(entries[1].local_path[1])) \/ base_path = <<>>
    /\ outcome' = [kind |-> "return", value |-> resolve_path(entries[1], base_path)]
    /\ pc' = "resolve_done"
    /\ UNCHANGED <<parse_vars, chunk_vars, ingest_vars, download_vars, line_vars>>

ResolveNext == ResolveUnset \/ ResolveRelative \/ ResolveKeep

ResolveSpec == ResolveInit /\ [][ResolveNext]_vars

(***************************************************************************)
(* download.py: download_sources copies or fetches the source of every     *)
(* entry into the destination directory.  A file name is the entry id      *)
(* followed by the characters of the extension; the content of a file is   *)
(* its bytes, [encoding, content].                                         *)
(***************************************************************************)
DownloadError(msg, files, io) ==
    [kind |-> "raise", error |-> "DownloadError", message |-> msg, files |-> files, io |-> io]

Destination == <<"/", "var", "downloads">>

\* Path(name).suffix of the file names that occur
SuffixOf(name) ==
    CASE name \in {"good.txt", "bad.txt", "missing.txt"} -> <<".", "t", "x", "t">>
      [] name \in {"good.pdf", "gone.pdf"} -> <<".", "p", "d", "f">>
      [] OTHER -> <<>>

\* urlparse(url) of the URLs that occur: the scheme and the unquoted path
UrlParse(url) ==
    CASE url = "file:///srv/good.pdf" -> [scheme |-> "file", path |-> <<"/", "srv", "good.pdf">>]
      [] url = "file:///srv/gone.pdf" -> [scheme |-> "file", path |-> <<"/", "srv", "gone.pdf">>]
      [] OTHER -> [scheme |-> "http", path |-> <<>>]

\* the suffix of the last component of a path, empty for an empty path
PathSuffix(path) == IF path = <<>> THEN <<>> ELSE SuffixOf(path[Len(path)])

\* if entry.local_path: a path that is set and is not the empty string
HasLocalPath(entry) == entry.local_path # <<>> /\ entry.local_path[1] # <<>>

\* _derive_extension(entry)
derive_extension(entry) ==
    IF HasLocalPath(entry) /\ PathSuffix(entry.local_path[1]) # <<>>
    THEN PathSuffix(entry.local_path[1])
    ELSE IF entry.source_url # "" /\ PathSuffix(UrlParse(entry.source_url).path) # <<>>
         THEN PathSuffix(UrlParse(entry.source_url).path)
    ELSE IF entry.format # <<>> /\ entry.format[1] # "."
         THEN <<".">> \o entry.format
    ELSE entry.format

\* _destination_for(entry, destination)
destination_for(entry, destination) ==
    LET extension == derive_extension(entry)
        filename  == IF extension # <<>> /\ extension[1] # "."
                     THEN <<entry.id, ".">> \o extension
                     ELSE <<entry.id>> \o extension
    IN  Append(destination, filename)

Bytes(file) == [encoding |-> file.encoding, content |-> file.content]

Copied(files, target, bytes, io) ==
    [kind |-> "return", value |-> target, files |-> DictSet(files, target, bytes), io |-> io]

\* _copy_local(entry, destination, manifest_path)
copy_local(entry, target, manifest_path, files) ==
    LET resolved == resolve_path(entry, <<Parent(manifest_path)>>)
    IN  IF resolved = <<>>
        THEN DownloadError("does not specify a local_path", files, <<>>)
        ELSE IF ~Exists(resolved[1])
             THEN DownloadError("Local source not found", files, <<>>)
        ELSE Copied(files, target, Bytes(FileAt(resolved[1])), <<"copy2">>)

\* a URL whose request succeeds and whose body then fails to be read: the
\* target was opened for writing and is left truncated
Flaky(url) == url = "http://flaky"

\* _download_remote(entry, destination)
download_remote(entry, target, files) ==
    LET parsed   == UrlParse(entry.source_url)
        resolved == IF IsAbsolute(parsed.path) THEN parsed.path ELSE Cwd \o parsed.path
    IN  IF entry.source_url = ""
        THEN DownloadError("does not define a source_url", files, <<>>)
        ELSE IF parsed.scheme = "file"
             THEN IF ~Exists(resolved)
                  THEN DownloadError("File URL not found", files, <<>>)
                  ELSE Copied(files, target, Bytes(FileAt(resolved)), <<"copy2">>)
        ELSE IF Flaky(entry.source_url)
             THEN DownloadError("Failed to download",
                                DictSet(files, target, [encoding |-> "utf-8", content |-> <<>>]),
                                <<"urlopen">>)
        ELSE IF ~Reachable(entry.source_url)
             THEN DownloadError("Failed to download", files, <<"urlopen">>)
        ELSE Copied(files, target, Bytes(RemoteAt(entry.source_url)), <<"urlopen">>)

SkipsExistingAlways(files, target, force) == target \in DictKeys(files)

\* if target_path.exists() and not overwrite
SkipsExisting(files, target, force) == target \in DictKeys(files) /\ ~force

\* the body of the loop of download_sources after the skip test
Transfer(entry, target, files) ==
    IF HasLocalPath(entry)
    THEN copy_local(entry, target, ManifestPath, files)
    ELSE download_remote(entry, target, files)

(***************************************************************************)
(* Specification of one call of download_sources.  Targets left by an      *)
(* earlier run hold OldBytes, which no source holds now.                   *)
(***************************************************************************)
DownloadItems ==
    << Item("copy",  << [k |-> "local_path", v |-> <<"good.txt">>],
                       [k |-> "source_url", v |-> ""] >>),
      Item("lost",  << [k |-> "local_path", v |-> <<"missing.txt">>],
                       [k |-> "source_url", v |-> "http://good"] >>),
      Item("web",   << [k |-> "source_url", v |-> "http://good"] >>),
      Item("down",  << [k |-> "source_url", v |-> "http://down"] >>),
      Item("flaky", << [k |-> "source_url", v |-> "http://flaky"] >>),
      Item("pdf",   << [k |-> "source_url", v |-> "file:///srv/good.pdf"],
                       [k |-> "format", v |-> <<"p", "d", "f">>] >>),
      Item("bare",  << [k |-> "local_path", v |-> <<>>] >>) >>

DownloadPool == {DownloadItems[n] : n \in 1..Len(DownloadItems)}

DownloadManifests ==
    { [kind |-> "missing"] }
    \cup { [kind |-> "json", is_list |-> TRUE, items |-> items] :
              items \in UNION {[1..n -> DownloadPool] : n \in 0..MaxEntries} }

OldBytes == [encoding |-> "utf-8", content |-> <<"i", "n", "i", "t", "i", "a", "l">>]

\* the targets of the items of a manifest
TargetsOf(file) ==
    IF file.kind # "json" THEN {}
    ELSE {destination_for(MakeEntry(file.items[k]), Destination) : k \in 1..Len(file.items)}

\* a directory that holds old files for the targets of set T
OldFiles(T) ==
    LET order == [n \in 1..Len(DownloadItems) |->
                     destination_for(MakeEntry(DownloadItems[n]), Destination)]
        kept  == SelectSeq(order, LAMBDA t : t \in T)
    IN  [n \in 1..Len(kept) |-> [k |-> kept[n], v |-> OldBytes]]

DownloadInit ==
    /\ manifest_file \in DownloadManifests
    /\ overwrite \in BOOLEAN
    /\ dest_dir \in BOOLEAN
    /\ dest_files \in (IF dest_dir
                       THEN {OldFiles(T) : T \in SUBSET TargetsOf(manifest_file)}
                       ELSE {<<>>})
    /\ dest_before = dest_files
    /\ downloads = <<>>
    /\ line_parts = <<>>
    /\ fetcher = "None"
    /\ base_path = <<>>
    /\ has_pdfminer = FALSE
    /\ out_dir = FALSE
    /\ out_file = <<>>
    /\ out_before = <<>>
    /\ entries = <<>>
    /\ idx = 0
    /\ fetched = <<>>
    /\ records = <<>>
    /\ written = 0
    /\ io_log = <<>>
    /\ stage = "none"
    /\ outcome = Running
    /\ pc = "download_load"
    /\ ParseIdle
    /\ ChunkIdle

download_frame ==
    <<parse_vars, chunk_vars, manifest_file, fetcher, base_path, has_pdfminer, out_dir,
      out_file, out_before, fetched, records, written, stage, overwrite, dest_before>>

\* manifest_entries = load_manifest(manifest_path) raises
DownloadLoadFails ==
    /\ pc = "download_load"
    /\ load_manifest(manifest_file).kind = "raise"
    /\ outcome' = load_manifest(manifest_file)
    /\ pc' = "download_done"
    /\ UNCHANGED <<download_frame, line_vars, entries, idx, io_log, dest_dir, dest_files, downloads>>

\* manifest_entries = load_manifest(manifest_path); _ensure_directory(...)
DownloadLoaded ==
    /\ pc = "download_load"
    /\ load_manifest(manifest_file).kind = "return"
    /\ entries' = load_manifest(manifest_file).value
    /\ dest_dir' = TRUE
    /\ downloads' = <<>>
    /\ pc' = "download_entries"
    /\ UNCHANGED <<download_frame, line_vars, outcome, idx, io_log, dest_files>>

Target == destination_for(Entry, Destination)

Transferring == Transfer(Entry, Target, dest_files)

\* the target exists and overwrite is off: report it, touch nothing
DownloadSkip ==
    /\ pc = "download_entries"
    /\ idx < Len(entries)
    /\ SkipsExisting(dest_files, Target, overwrite)
    /\ downloads' = DictSet(downloads, Entry.id, [entry |-> Entry, path |-> Target])
    /\ idx' = idx + 1
    /\ UNCHANGED <<download_frame, line_vars, pc, outcome, entries, io_log, dest_dir, dest_files>>

\* _copy_local or _download_remote raises DownloadError
DownloadFails ==
    /\ pc = "download_entries"
    /\ idx < Len(entries)
    /\ ~SkipsExisting(dest_files, Target, overwrite)
    /\ Transferring.kind = "raise"
    /\ io_log' = Logged(Transferring.io)
    /\ dest_files' = Transferring.files
    /\ outcome' = [kind |-> "raise", error |-> Transferring.error,
                   message |-> Transferring.message]
    /\ pc' = "download_done"
    /\ UNCHANGED <<download_frame, line_vars, entries, idx, dest_dir, downloads>>

\* the source is copied or fetched into the target and reported
DownloadTransfer ==
    /\ pc = "download_entries"
    /\ idx < Len(entries)
    /\ ~SkipsExisting(dest_files, Target, overwrite)
    /\ Transferring.kind = "return"
    /\ io_log' = Logged(Transferring.io)
    /\ dest_files' = Transferring.files
    /\ downloads' = DictSet(downloads, Entry.id,
                            [entry |-> Entry, path |-> Transferring.value])
    /\ idx' = idx + 1
    /\ UNCHANGED <<download_frame, line_vars, pc, outcome, entries, dest_dir>>

\* return downloads
DownloadReturn ==
    /\ pc = "download_entries"
    /\ idx = Len(entries)
    /\ outcome' = [kind |-> "return", value |-> downloads]
    /\ pc' = "download_done"
    /\ UNCHANGED <<download_frame, line_vars, entries, idx, io_log, dest_dir, dest_files, downloads>>

DownloadNext ==
    \/ DownloadLoadFails
    \/ DownloadLoaded
    \/ DownloadSkip
    \/ DownloadFails
    \/ DownloadTransfer
    \/ DownloadReturn

DownloadSpec == DownloadInit /\ [][DownloadNext]_vars

(***************************************************************************)
(* Specification of the heading test of one line: _match_heading followed  *)
(* by _normalise_heading.  The line is a phrase, an alias or not, with at  *)
(* most MaxUpper letters in upper case or all of them, after a run of at   *)
(* most MaxMarkers markers and optional whitespace, before such a run and  *)
(* an optional colon.                                                      *)
(***************************************************************************)
UpperChar(c) ==
    IF \E i \in 1..Len(LowerCase) : LowerCase[i] = c
    THEN UpperCase[CHOOSE i \in 1..Len(LowerCase) : LowerCase[i] = c]
    ELSE c

MarkerRuns == UNION {[1..n -> Markers] : n \in 0..MaxMarkers}

Phrases == AliasNames \cup { <<"f", "o", "o">>, <<"m", "a", "n", "t", "r", "a", " ", "x">> }

\* the spellings of a phrase with the letters at some positions in upper case
Spellings(phrase) ==
    {[i \in 1..Len(phrase) |-> IF i \in U THEN UpperChar(phrase[i]) ELSE phrase[i]] :
        U \in {U \in SUBSET (1..Len(phrase)) :
                  Cardinality(U) <= MaxUpper \/ U = 1..Len(phrase)}}

LineParts ==
    UNION {[lead : MarkerRuns, space : {<<>>, <<" ">>}, phrase : {phrase},
            spelt : Spellings(phrase), trail : MarkerRuns, colon : {<<>>, <<":">>}] :
              phrase \in Phrases}

HeadingInit ==
    /\ line_parts \in LineParts
    /\ text = line_parts.lead \o line_parts.space \o line_parts.spelt
                  \o line_parts.trail \o line_parts.colon
    /\ lines = <<>>
    /\ pos = 0
    /\ sections = <<>>
    /\ current_key = NoKey
    /\ buffer = <<>>
    /\ outcome = Running
    /\ pc = "heading_test"
    /\ ChunkIdle
    /\ IngestIdle
    /\ overwrite = FALSE
    /\ dest_dir = FALSE
    /\ dest_files = <<>>
    /\ dest_before = <<>>
    /\ downloads = <<>>

\* heading = _match_heading(line); canonical = _normalise_heading(heading)
HeadingResolves ==
    /\ pc = "heading_test"
    /\ Canonical(text) # NoKey
    /\ current_key' = Canonical(text)
    /\ outcome' = [kind |-> "return", value |-> match_heading(text)]
    /\ pc' = "heading_done"
    /\ UNCHANGED <<text, lines, pos, sections, buffer, chunk_vars, ingest_vars,
                   download_vars, line_vars>>

\* no heading, or one that is no alias: the line is body text
HeadingFails ==
    /\ pc = "heading_test"
    /\ Canonical(text) = NoKey
    /\ outcome' = [kind |-> "return", value |-> match_heading(text)]
    /\ pc' = "heading_done"
    /\ UNCHANGED <<parse_vars, chunk_vars, ingest_vars, download_vars, line_vars>>

HeadingNext == HeadingResolves \/ HeadingFails

HeadingSpec == HeadingInit /\ [][HeadingNext]_vars

(***************************************************************************)
(* Specification of one call of build_corpus_record: the entry carries a   *)
(* chunk_size of BuildSizes and the text is a document of ParseInputs.     *)
(***************************************************************************)
BuildSizes == {0, 1, 3, DEFAULT_CHUNK_SIZE}

BuildEntries ==
    {MakeEntry(Item("doc", << [k |-> "chunk_size", v |-> JsonNumber(n)],
                              [k |-> "source_url", v |-> "http://good"] >>)) :
        n \in BuildSizes}

BuildInit ==
    /\ text \in ParseInputs
    /\ entries \in {<<e>> : e \in BuildEntries}
    /\ lines = <<>>
    /\ pos = 0
    /\ sections = <<>>
    /\ current_key = NoKey
    /\ buffer = <<>>
    /\ ChunkIdle
    /\ manifest_file = [kind |-> "missing"]
    /\ fetcher = "None"
    /\ base_path = <<>>
    /\ has_pdfminer = FALSE
    /\ out_dir = FALSE
    /\ out_file = <<>>
    /\ out_before = <<>>
    /\ idx = 0
    /\ fetched = <<>>
    /\ records = <<>>
    /\ written = 0
    /\ io_log = <<>>
    /\ stage = "none"
    /\ outcome = Running
    /\ pc = "build_parse"
    /\ DownloadIdle

build_frame ==
    <<text, lines, pos, sections, current_key, buffer, sec, paragraphs, ppos,
      paragraph_buffer, current_length, ingest_env, out_dir, out_file, entries, idx,
      fetched, written, io_log, stage>>

\* sections = parse_structured_sections(text) raises
BuildParseFails ==
    /\ pc = "build_parse"
    /\ parse_structured_sections(text).kind = "raise"
    /\ outcome' = parse_structured_sections(text)
    /\ pc' = "build_done"
    /\ UNCHANGED <<build_frame, download_vars, line_vars, chunk_input, chunk_size, chunks, records>>

\* sections = parse_structured_sections(text)
BuildParsed ==
    /\ pc = "build_parse"
    /\ parse_structured_sections(text).kind = "return"
    /\ chunk_input' = parse_structured_sections(text).value
    /\ chunk_size' = entries[1].chunk_size
    /\ pc' = "build_chunk"
    /\ UNCHANGED <<build_frame, download_vars, line_vars, outcome, chunks, records>>

\* chunks = list(_chunk_sections(sections, entry.chunk_size)) raises
BuildChunkFails ==
    /\ pc = "build_chunk"
    /\ chunk_sections(chunk_input, chunk_size).kind = "raise"
    /\ outcome' = chunk_sections(chunk_input, chunk_size)
    /\ pc' = "build_done"
    /\ UNCHANGED <<build_frame, download_vars, line_vars, chunk_input, chunk_size, chunks, records>>

\* chunks = list(_chunk_sections(sections, entry.chunk_size))
BuildChunked ==
    /\ pc = "build_chunk"
    /\ chunk_sections(chunk_input, chunk_size).kind = "return"
    /\ chunks' = chunk_sections(chunk_input, chunk_size).value
    /\ pc' = "build_record"
    /\ UNCHANGED <<build_frame, download_vars, line_vars, outcome, chunk_input, chunk_size, records>>

\* return CorpusRecord(...)
BuildReturn ==
    /\ pc = "build_record"
    /\ outcome' = MakeRecord(entries[1], [kind |-> "return", value |-> chunk_input],
                                         [kind |-> "return", value |-> chunks])
    /\ records' = <<outcome'.value>>
    /\ pc' = "build_done"
    /\ UNCHANGED <<build_frame, download_vars, line_vars, chunk_input, chunk_size, chunks>>

BuildNext ==
    \/ BuildParseFails
    \/ BuildParsed
    \/ BuildChunkFails
    \/ BuildChunked
    \/ BuildReturn

BuildSpec == BuildInit /\ [][BuildNext]_vars

(***************************************************************************)
(* The document as its headings and bodies, read off the text directly.    *)
(***************************************************************************)
IsHeadingAt(i) == Canonical(lines[i]) # NoKey

HeadingIndexes == SelectSeq([i \in 1..Len(lines) |-> i], IsHeadingAt)

\* the section a body line belongs to: that of the nearest heading above it
Owner(j) ==
    IF \E h \in 1..(j - 1) : IsHeadingAt(h)
    THEN Canonical(lines[CHOOSE h \in 1..(j - 1) :
                           IsHeadingAt(h) /\ \A g \in (h + 1)..(j - 1) : ~IsHeadingAt(g)])
    ELSE NoKey

\* some body line of a section of this key has a visible character
HasContent(key) ==
    \E j \in 1..Len(lines) :
        ~IsHeadingAt(j) /\ Owner(j) = key /\ Strip(lines[j]) # <<>>

\* the body that follows the n-th heading of the document, lines joined
BodyOf(n) ==
    LET first == HeadingIndexes[n] + 1
        last  == IF n < Len(HeadingIndexes) THEN HeadingIndexes[n + 1] - 1 ELSE Len(lines)
    IN  Join(SubSeq(lines, first, last), NL)

\* the bodies of all occurrences of a key, in document order
Bodies(key) ==
    LET occ == SelectSeq([n \in 1..Len(HeadingIndexes) |-> n],
                         LAMBDA n : Canonical(lines[HeadingIndexes[n]]) = key)
    IN  [i \in 1..Len(occ) |-> BodyOf(occ[i])]

StripAll(parts) == [i \in 1..Len(parts) |-> Strip(parts[i])]

Trimmed(s) == s # <<>> /\ s[1] \notin Whitespace /\ s[Len(s)] \notin Whitespace

Spelling(key) ==
    CASE key = "ritual_name" -> <<"r", "i", "t", "u", "a", "l", "_", "n", "a", "m", "e">>
      [] key = "sankalpa"    -> <<"s", "a", "n", "k", "a", "l", "p", "a">>
      [] key = "paddhati"    -> <<"p", "a", "d", "d", "h", "a", "t", "i">>
      [] key = "mantras"     -> <<"m", "a", "n", "t", "r", "a", "s">>
      [] key = "commentary"  -> <<"c", "o", "m", "m", "e", "n", "t", "a", "r", "y">>

LetterRank(c) ==
    IF c = "_" THEN 0 ELSE CHOOSE i \in 1..Len(LowerCase) : LowerCase[i] = c

\* a comes strictly before b in alphabetical order
AlphaBefore(a, b) ==
    LET s == Spelling(a)
        t == Spelling(b)
    IN  \E i \in 1..Len(s) :
            /\ \A j \in 1..(i - 1) : j <= Len(t) /\ s[j] = t[j]
            /\ i <= Len(t)
            /\ LetterRank(s[i]) < LetterRank(t[i])

Range(f) == {f[i] : i \in DOMAIN f}

(***************************************************************************)
(* C1: when parse_structured_sections returns, the mapping has exactly the *)
(* five canonical keys, each with non-empty text that has no leading or    *)
(* trailing whitespace; it raises ManifestLoadError exactly when some      *)
(* canonical key has no visible body text in the document.                 *)
(***************************************************************************)
C1_FiveKeysOrRaise ==
    pc = "parse_done" =>
        /\ outcome.kind \in {"return", "raise"}
        /\ outcome.kind = "return" =>
              /\ Len(outcome.value) = Cardinality(REQUIRED_KEYS)
              /\ DictKeys(outcome.value) = REQUIRED_KEYS
              /\ \A i \in 1..Len(outcome.value) : Trimmed(outcome.value[i].v)
        /\ outcome.kind = "raise" <=> \E key \in REQUIRED_KEYS : ~HasContent(key)
        /\ outcome.kind = "raise" => outcome.error = "ManifestLoadError"

C1_Witness ==
    /\ pc = "parse_done"
    /\ outcome.kind = "return"
    /\ Len(lines) > 2 * Cardinality(REQUIRED_KEYS)

(***************************************************************************)
(* C2: the one error raised lists exactly the canonical keys that are      *)
(* missing or empty after the whole text was parsed, in alphabetical       *)
(* order; a text without any recognised heading reports all five, and the  *)
(* document that lacks only its Commentary heading reports "commentary".   *)
(***************************************************************************)
C2_AllMissingListedSorted ==
    (pc = "parse_done" /\ outcome.kind = "raise") =>
        /\ outcome.error = "ManifestLoadError"
        /\ Range(outcome.listed) = {key \in REQUIRED_KEYS : ~HasContent(key)}
        /\ \A i, j \in 1..Len(outcome.listed) :
              i < j => AlphaBefore(outcome.listed[i], outcome.listed[j])
        /\ HeadingIndexes = <<>> => Range(outcome.listed) = REQUIRED_KEYS
        /\ text = Join(BaseDoc(4), NL) => "commentary" \in Range(outcome.listed)

C2_Witness ==
    /\ pc = "parse_done"
    /\ outcome.kind = "raise"
    /\ HeadingIndexes # <<>>
    /\ Len(outcome.listed) = 3

(***************************************************************************)
(* C3 as stated: a key introduced at two or more places yields one section *)
(* whose text is the bodies of all its occurrences, in document order,     *)
(* joined by a blank line, the whole trimmed.                              *)
(***************************************************************************)
C3_Original ==
    (pc = "parse_done" /\ outcome.kind = "return") =>
        \A key \in REQUIRED_KEYS :
            Len(Bodies(key)) >= 2 =>
                DictGet(outcome.value, key, <<>>) = Strip(Join(Bodies(key), BlankLine))

(***************************************************************************)
(* C3 amended: a key introduced at two or more places yields one section   *)
(* whose text is the bodies of its occurrences, each trimmed and the empty *)
(* ones left out, in document order, joined by a blank line; no body is    *)
(* overwritten by a later occurrence.                                      *)
(***************************************************************************)
C3_MergeTrimmedNonEmpty ==
    (pc = "parse_done" /\ outcome.kind = "return") =>
        \A key \in REQUIRED_KEYS :
            Len(Bodies(key)) >= 2 =>
                /\ Cardinality({i \in 1..Len(outcome.value) : outcome.value[i].k = key}) = 1
                /\ DictGet(outcome.value, key, <<>>) =
                       Strip(Join(SelectSeq(StripAll(Bodies(key)), NonEmpty), BlankLine))

C3_Witness ==
    /\ pc = "parse_done"
    /\ outcome.kind = "return"
    /\ \E key \in REQUIRED_KEYS :
          /\ Len(SelectSeq(StripAll(Bodies(key)), NonEmpty)) >= 2
          /\ \E n \in 1..(Len(HeadingIndexes) - 2) :
                /\ Canonical(lines[HeadingIndexes[n]]) = key
                /\ Canonical(lines[HeadingIndexes[n + 1]]) # key

(***************************************************************************)
(* The chunks of one section and its paragraphs, read off the arguments.   *)
(***************************************************************************)
\* the texts of the chunks yielded for a section, in output order
ChunkTextsOf(name) ==
    LET mine == SelectSeq(chunks, LAMBDA c : c.section = name)
    IN  [i \in 1..Len(mine) |-> mine[i].text]

\* the paragraphs of a text: its blank-line separated pieces, each trimmed,
\* the empty ones left out
ParagraphsOf(t) == SelectSeq(StripAll(SplitBlank(t)), NonEmpty)

\* every blank-line separated piece of the text is non-empty and trimmed
CleanParagraphs(t) == \A i \in 1..Len(SplitBlank(t)) : Trimmed(SplitBlank(t)[i])

(***************************************************************************)
(* C4: for every mapping and positive chunk_size, a chunk that groups two  *)
(* or more paragraphs is at most chunk_size long; a chunk longer than      *)
(* chunk_size is exactly one paragraph of its section, itself longer than  *)
(* chunk_size.                                                             *)
(***************************************************************************)
C4_ChunkSizeBound ==
    \A i \in 1..Len(chunks) :
        LET grouped == SplitBlank(chunks[i].text)
        IN  /\ Len(grouped) >= 2 => Len(chunks[i].text) <= chunk_size
            /\ Len(chunks[i].text) > chunk_size =>
                  /\ Len(grouped) = 1
                  /\ Len(grouped[1]) > chunk_size
                  /\ \E j \in 1..Len(chunk_input) :
                        /\ chunk_input[j].k = chunks[i].section
                        /\ grouped[1] \in Range(ParagraphsOf(chunk_input[j].v))

C4_Witness ==
    /\ pc = "chunk_done"
    /\ Len(chunks) >= 2
    /\ \E i \in 1..Len(chunks) :
          /\ Len(SplitBlank(chunks[i].text)) >= 2
          /\ Len(chunks[i].text) = chunk_size

(***************************************************************************)
(* C5 as stated: for a section text the parser can produce (non-empty,     *)
(* trimmed) and a positive chunk_size, the section's chunks rejoined by    *)
(* blank lines are exactly the section's text.                             *)
(***************************************************************************)
C5_Original ==
    (pc = "chunk_done" /\ outcome.kind = "return") =>
        \A j \in 1..Len(chunk_input) :
            Trimmed(chunk_input[j].v) =>
                Join(ChunkTextsOf(chunk_input[j].k), BlankLine) = chunk_input[j].v

(***************************************************************************)
(* C5 amended: the section's chunks rejoined by blank lines are the        *)
(* section's paragraphs (blank-line separated pieces, each trimmed, empty  *)
(* ones left out) joined by blank lines; that is exactly the section's     *)
(* text when every piece is non-empty and has no leading or trailing       *)
(* whitespace.                                                             *)
(***************************************************************************)
C5_ChunksRejoinParagraphs ==
    (pc = "chunk_done" /\ outcome.kind = "return") =>
        \A j \in 1..Len(chunk_input) :
            Trimmed(chunk_input[j].v) =>
                /\ Join(ChunkTextsOf(chunk_input[j].k), BlankLine) =
                       Join(ParagraphsOf(chunk_input[j].v), BlankLine)
                /\ CleanParagraphs(chunk_input[j].v) =>
                       Join(ChunkTextsOf(chunk_input[j].k), BlankLine) = chunk_input[j].v

C5_Witness ==
    /\ pc = "chunk_done"
    /\ outcome.kind = "return"
    /\ \E j \in 1..Len(chunk_input) :
          /\ Trimmed(chunk_input[j].v)
          /\ ~CleanParagraphs(chunk_input[j].v)
          /\ Len(ChunkTextsOf(chunk_input[j].k)) >= 2

(***************************************************************************)
(* C10: for every chunk_size <= 0 and every mapping, empty mappings and    *)
(* empty texts included, the chunker raises ManifestLoadError and yields   *)
(* no chunk.                                                               *)
(***************************************************************************)
C10_NonPositiveSizeRejected ==
    (pc \in {"chunk_start", "chunk_sections", "chunk_paragraphs", "chunk_done"}
        /\ chunk_size <= 0) =>
        /\ chunks = <<>>
        /\ pc \in {"chunk_start", "chunk_done"}
        /\ pc = "chunk_done" =>
              /\ outcome.kind = "raise"
              /\ outcome.error = "ManifestLoadError"

C10_Witness ==
    /\ pc = "chunk_done"
    /\ chunk_size = 0
    /\ outcome.kind = "raise"
    /\ Len(chunk_input) = 2
    /\ chunk_input[1].v = <<>>
    /\ chunk_input[2].v # <<>>

(***************************************************************************)
(* C11: for a section of several paragraphs, when the paragraphs joined by *)
(* blank lines are at most chunk_size long the section yields exactly one  *)
(* chunk; when the joined text is longer than chunk_size while no single   *)
(* paragraph is, the section yields two or more chunks, none of them       *)
(* longer than chunk_size.                                                 *)
(***************************************************************************)
C11_FitsInOneElseSplits ==
    (pc = "chunk_done" /\ outcome.kind = "return") =>
        \A j \in 1..Len(chunk_input) :
            LET ps     == ParagraphsOf(chunk_input[j].v)
                joined == Join(ps, BlankLine)
                mine   == ChunkTextsOf(chunk_input[j].k)
            IN  Len(ps) >= 2 =>
                    /\ Len(joined) <= chunk_size => Len(mine) = 1
                    /\ (/\ Len(joined) > chunk_size
                        /\ \A p \in 1..Len(ps) : Len(ps[p]) <= chunk_size) =>
                           /\ Len(mine) >= 2
                           /\ \A i \in 1..Len(mine) : Len(mine[i]) <= chunk_size

C11_Witness ==
    /\ pc = "chunk_done"
    /\ outcome.kind = "return"
    /\ Len(chunk_input) = 1
    /\ Len(ParagraphsOf(chunk_input[1].v)) = 3
    /\ Len(Join(ParagraphsOf(chunk_input[1].v), BlankLine)) > chunk_size
    /\ Len(ChunkTextsOf(chunk_input[1].k)) = 2
    /\ \A i \in 1..Len(chunks) : Len(chunks[i].text) <= chunk_size

(***************************************************************************)
(* C18: for every mapping and positive chunk_size, the chunks of a section *)
(* in output order, each split back on blank lines, list exactly the       *)
(* section's non-empty trimmed paragraphs in document order, so that each  *)
(* paragraph is in exactly one chunk and whole; a paragraph longer than    *)
(* chunk_size is alone in its chunk; every chunk belongs to a section of   *)
(* the mapping, and the chunks follow the mapping's order, those of one    *)
(* section next to each other.                                             *)
(***************************************************************************)
RECURSIVE ConcatAll(_)
ConcatAll(seqs) == IF seqs = <<>> THEN <<>> ELSE Head(seqs) \o ConcatAll(Tail(seqs))

\* the paragraphs of the chunks of a section, chunk after chunk
ChunkedParagraphs(name) ==
    ConcatAll([i \in 1..Len(ChunkTextsOf(name)) |-> SplitBlank(ChunkTextsOf(name)[i])])

\* the place of a section in the mapping's iteration order
KeyIndex(name) == CHOOSE j \in 1..Len(chunk_input) : chunk_input[j].k = name

C18_ParagraphsKeptWholeInOrder ==
    (pc = "chunk_done" /\ outcome.kind = "return") =>
        /\ \A j \in 1..Len(chunk_input) :
              ChunkedParagraphs(chunk_input[j].k) = ParagraphsOf(chunk_input[j].v)
        /\ \A i \in 1..Len(chunks) :
              /\ \E j \in 1..Len(chunk_input) : chunk_input[j].k = chunks[i].section
              /\ \A p \in Range(SplitBlank(chunks[i].text)) :
                    Len(p) > chunk_size => SplitBlank(chunks[i].text) = <<p>>
        /\ \A i \in 1..Len(chunks) : \A n \in i..Len(chunks) :
              KeyIndex(chunks[i].section) <= KeyIndex(chunks[n].section)

C18_Witness ==
    /\ pc = "chunk_done"
    /\ outcome.kind = "return"
    /\ Len(chunk_input) = 2
    /\ Len(ParagraphsOf(chunk_input[1].v)) = 2
    /\ Len(ChunkTextsOf(chunk_input[1].k)) = 2
    /\ Len(ChunkTextsOf(chunk_input[2].k)) = 1
    /\ Len(chunks[1].text) > chunk_size

(***************************************************************************)
(* C19: at every step of the loop over the paragraphs of a section,        *)
(* current_length, the length compared against chunk_size, is the length   *)
(* of the buffered paragraphs joined by blank lines, before the step and   *)
(* after it; and a step that takes a non-empty paragraph yields a chunk    *)
(* exactly when the buffer is non-empty and the buffered paragraphs joined *)
(* with that paragraph are longer than chunk_size, the chunk being the     *)
(* buffer as it was.                                                       *)
(***************************************************************************)
JoinedLength(buf) == Len(Join(buf, BlankLine))

C19_LengthIsJoinedLength ==
    [][pc = "chunk_paragraphs" =>
          /\ current_length = JoinedLength(paragraph_buffer)
          /\ current_length' = JoinedLength(paragraph_buffer')
          /\ ppos' = ppos + 1 =>
                LET paragraph == Strip(paragraphs[ppos + 1])
                    closes    == /\ paragraph_buffer # <<>>
                                 /\ JoinedLength(Append(paragraph_buffer, paragraph))
                                        > chunk_size
                IN  /\ (paragraph # <<>> /\ closes) =>
                          /\ chunks' = Append(chunks, Chunk(ChunkName, paragraph_buffer))
                          /\ paragraph_buffer' = <<paragraph>>
                    /\ (paragraph # <<>> /\ ~closes) =>
                          /\ chunks' = chunks
                          /\ paragraph_buffer' = Append(paragraph_buffer, paragraph)
                    /\ paragraph = <<>> =>
                          /\ chunks' = chunks
                          /\ paragraph_buffer' = paragraph_buffer]_vars

C19_Witness ==
    /\ pc = "chunk_paragraphs"
    /\ Len(chunks) = 1
    /\ Len(SplitBlank(chunks[1].text)) = 2
    /\ Len(chunks[1].text) = chunk_size
    /\ Len(paragraph_buffer) = 1
    /\ current_length = Len(paragraph_buffer[1])

(***************************************************************************)
(* C12: a record returned by build_corpus_record has, for each of the five *)
(* canonical keys, at least one chunk of that section; the section of      *)
(* every chunk is one of the five keys of the record's sections mapping,   *)
(* and the text of every chunk is non-empty.  The call returns a record    *)
(* exactly when the text parses and the chunk_size is positive, and the    *)
(* record is the one build_corpus_record computes.                         *)
(***************************************************************************)
C12_EverySectionChunked ==
    pc = "build_done" =>
        /\ outcome = build_corpus_record(entries[1], text)
        /\ outcome.kind = "return" <=>
              /\ parse_structured_sections(text).kind = "return"
              /\ entries[1].chunk_size > 0
        /\ outcome.kind = "return" =>
              LET record == outcome.value
              IN  /\ DictKeys(record.sections) = REQUIRED_KEYS
                  /\ Len(record.sections) = Cardinality(REQUIRED_KEYS)
                  /\ \A key \in REQUIRED_KEYS :
                        \E i \in 1..Len(record.chunks) : record.chunks[i].section = key
                  /\ \A i \in 1..Len(record.chunks) :
                        /\ record.chunks[i].section \in DictKeys(record.sections)
                        /\ record.chunks[i].section \in REQUIRED_KEYS
                        /\ record.chunks[i].text # <<>>

C12_Witness ==
    /\ pc = "build_done"
    /\ outcome.kind = "return"
    /\ entries[1].chunk_size = 1
    /\ Len(outcome.value.chunks) > Cardinality(REQUIRED_KEYS)
    /\ \E i \in 1..Len(outcome.value.sections) :
          Len(outcome.value.sections[i].v) > 1

(***************************************************************************)
(* What makes a manifest invalid: an item that is no object, or an object  *)
(* without one of the fields id, title, layer, tradition.                  *)
(***************************************************************************)
LacksField(item) ==
    /\ item.is_object
    /\ \E n \in 1..Len(RequiredFields) : RequiredFields[n] \notin DictKeys(item.fields)

InvalidItem(item) == ~item.is_object \/ LacksField(item)

InvalidManifest(file) ==
    \/ file.kind \in {"missing", "bad_json"}
    \/ ~file.is_list
    \/ \E k \in 1..Len(file.items) : InvalidItem(file.items[k])

(***************************************************************************)
(* C13: load_manifest raises ManifestLoadError and returns no entries      *)
(* whenever the file is missing, the JSON is malformed, the root is not an *)
(* array, some item is not an object, or some item lacks one of id, title, *)
(* layer, tradition, also when the invalid item comes after valid ones.    *)
(***************************************************************************)
C13_InvalidManifestRejected ==
    (pc = "load_done" /\ InvalidManifest(manifest_file)) =>
        /\ outcome.kind = "raise"
        /\ outcome.error = "ManifestLoadError"

C13_Witness ==
    /\ pc = "load_done"
    /\ manifest_file.kind = "json"
    /\ manifest_file.is_list
    /\ Len(manifest_file.items) = 2
    /\ ~InvalidItem(manifest_file.items[1])
    /\ InvalidItem(manifest_file.items[2])
    /\ outcome.kind = "raise"
    /\ outcome.error # "ManifestLoadError"

(***************************************************************************)
(* C14: resolve_path(base_dir) returns nothing when local_path is unset;   *)
(* for a relative local_path it returns base_dir joined with local_path    *)
(* and resolved: an absolute path without "." or ".." components, which is *)
(* the resolved base directory followed by local_path when local_path does *)
(* not climb; an absolute local_path is returned as the path it names, not *)
(* resolved and whatever the base directory.                               *)
(***************************************************************************)
C14_ResolvePath ==
    pc = "resolve_done" =>
        LET local == entries[1].local_path
            got   == outcome.value
        IN  /\ local = <<>> => got = <<>>
            /\ (local # <<>> /\ ~IsAbsolute(local[1]) /\ base_path # <<>>) =>
                  /\ Len(got) = 1
                  /\ IsAbsolute(got[1])
                  /\ \A i \in 1..Len(got[1]) : got[1][i] \notin {".", ".."}
                  /\ got[1] = Resolve(base_path[1] \o local[1])
                  /\ (\A i \in 1..Len(local[1]) : local[1][i] # "..") =>
                        got[1] = Resolve(base_path[1]) \o PathOf(local[1])
            /\ (local # <<>> /\ IsAbsolute(local[1])) =>
                  /\ got = <<PathOf(local[1])>>
                  /\ (\A i \in 1..Len(local[1]) : local[1][i] # ".") => got = local

C14_Witness ==
    /\ pc = "resolve_done"
    /\ base_path # <<>>
    /\ ~IsAbsolute(base_path[1])
    /\ entries[1].local_path = << <<"..", "good.txt">> >>
    /\ outcome.value = << Cwd \o <<"good.txt">> >>

(***************************************************************************)
(* The source of an entry as download_sources reads it now.                *)
(***************************************************************************)
SourceBytes(entry) ==
    LET local == resolve_path(entry, <<Parent(ManifestPath)>>)
        file  == UrlParse(entry.source_url).path
    IN  IF HasLocalPath(entry)
        THEN IF Exists(local[1]) THEN <<Bytes(FileAt(local[1]))>> ELSE <<>>
        ELSE IF UrlParse(entry.source_url).scheme = "file"
             THEN IF Exists(file) THEN <<Bytes(FileAt(file))>> ELSE <<>>
        ELSE IF Reachable(entry.source_url) THEN <<Bytes(RemoteAt(entry.source_url))>>
        ELSE <<>>

\* the copies and requests made for entry n
OpsOf(n) == {io_log[m].op : m \in {m \in 1..Len(io_log) : io_log[m].entry = n}}

TargetOf(n) == destination_for(entries[n], Destination)

(***************************************************************************)
(* C15: when download_sources returns with overwrite on, the target of     *)
(* every entry holds what its source holds now, also where an earlier run  *)
(* had left a target.  With overwrite off, a target that exists when its   *)
(* entry is reached is never touched: no copy and no request is made for   *)
(* the entry, the file keeps its content whether the source has changed or *)
(* is gone, and the returned mapping has the entry's id with that target.  *)
(***************************************************************************)
C15_OverwriteOrKeep ==
    /\ (pc = "download_done" /\ outcome.kind = "return" /\ overwrite) =>
          \A n \in 1..Len(entries) :
              /\ TargetOf(n) \in DictKeys(dest_files)
              /\ <<DictGet(dest_files, TargetOf(n), <<>>)>> = SourceBytes(entries[n])
              /\ DictGet(outcome.value, entries[n].id, <<>>).path = TargetOf(n)
    /\ (pc \in {"download_entries", "download_done"} /\ ~overwrite) =>
          \A n \in 1..Len(entries) :
              TargetOf(n) \in DictKeys(dest_before) =>
                  /\ DictGet(dest_files, TargetOf(n), <<>>) = DictGet(dest_before, TargetOf(n), <<>>)
                  /\ OpsOf(n) = {}
                  /\ (n <= idx \/ (pc = "download_done" /\ outcome.kind = "return")) =>
                        /\ entries[n].id \in DictKeys(downloads)
                        /\ DictGet(downloads, entries[n].id, <<>>).path = TargetOf(n)
                  /\ (pc = "download_done" /\ outcome.kind = "return") =>
                        DictGet(outcome.value, entries[n].id, <<>>) =
                            [entry |-> entries[n], path |-> TargetOf(n)]

C15_Witness ==
    /\ pc = "download_done"
    /\ outcome.kind = "return"
    /\ ~overwrite
    /\ Len(entries) = 2
    /\ entries[1].id = "lost"
    /\ entries[2].id = "copy"
    /\ TargetOf(1) \in DictKeys(dest_before)
    /\ TargetOf(2) \notin DictKeys(dest_before)
    /\ DictGet(dest_files, TargetOf(1), <<>>) = OldBytes
    /\ <<DictGet(dest_files, TargetOf(2), <<>>)>> = SourceBytes(entries[2])

(***************************************************************************)
(* The parser's progress, read off the document.  hs lists the indexes of  *)
(* the recognised heading lines and ks their canonical keys.               *)
(***************************************************************************)
\* how many recognised headings the first p lines hold
HeadingsUpTo(hs, p) == Cardinality({n \in 1..Len(hs) : hs[n] <= p})

\* how many bodies have been handed to their section
ClosedBodies(hs) ==
    IF pc = "parse_done" THEN Len(hs)
    ELSE IF HeadingsUpTo(hs, pos) = 0 THEN 0 ELSE HeadingsUpTo(hs, pos) - 1

\* the lines between the n-th heading and the next, joined
BodyAfter(hs, n) ==
    Join(SubSeq(lines, hs[n] + 1, IF n < Len(hs) THEN hs[n + 1] - 1 ELSE Len(lines)), NL)

\* the bodies closed so far that belong to a key, trimmed, in document order
ClosedFragments(hs, ks, key) ==
    LET occ == SelectSeq([n \in 1..ClosedBodies(hs) |-> n], LAMBDA n : ks[n] = key)
    IN  [i \in 1..Len(occ) |-> Strip(BodyAfter(hs, occ[i]))]

\* the lines read since the last recognised heading, or since the start
PendingLines(hs) ==
    LET n == HeadingsUpTo(hs, pos)
    IN  SubSeq(lines, IF n = 0 THEN 1 ELSE hs[n] + 1, pos)

\* the key of the last recognised heading read
LastKey(hs, ks) == IF HeadingsUpTo(hs, pos) = 0 THEN NoKey ELSE ks[HeadingsUpTo(hs, pos)]

(***************************************************************************)
(* C16: after any number of lines the current section is that of the last  *)
(* recognised heading read, the buffer holds verbatim the lines read since *)
(* (the heading line itself is not among them, a line that does not        *)
(* resolve is), and every section holds, as one fragment each and in       *)
(* document order, the bodies that were closed while it was current and no *)
(* other; at end of input the remaining buffer has gone to the current     *)
(* section.  No line of a section's text resolves to a canonical key.      *)
(***************************************************************************)
C16_LineByLine ==
    pc \in {"parse_loop", "parse_done"} =>
        \A hs \in {HeadingIndexes} :
        \A ks \in {[n \in 1..Len(hs) |-> Canonical(lines[hs[n]])]} :
            /\ current_key = LastKey(hs, ks)
            /\ buffer = PendingLines(hs)
            /\ \A i \in 1..Len(buffer) : lines[pos - Len(buffer) + i] = buffer[i]
            /\ \A i \in 1..Len(buffer) : \A n \in 1..Len(hs) : hs[n] # pos - Len(buffer) + i
            /\ DictKeys(sections) = {ks[n] : n \in 1..ClosedBodies(hs)}
            /\ \A key \in DictKeys(sections) :
                   DictGet(sections, key, <<>>) = ClosedFragments(hs, ks, key)
            /\ (pc = "parse_done" /\ outcome.kind = "return") =>
                   \A i \in 1..Len(outcome.value) :
                       \A l \in Range(SplitLines(outcome.value[i].v)) : Canonical(l) = NoKey

C16_Witness ==
    /\ pc = "parse_done"
    /\ outcome.kind = "return"
    /\ Len(HeadingIndexes) > Cardinality(REQUIRED_KEYS)
    /\ \E j \in 1..Len(lines) :
          /\ lines[j] = <<"#", "#", " ", "F", "o", "o">>
          /\ lines[j] \in Range(SplitLines(DictGet(outcome.value, Owner(j), <<>>)))
          /\ \E h \in (j + 1)..Len(lines) : IsHeadingAt(h) /\ Canonical(lines[h]) # Owner(j)

(***************************************************************************)
(* C17: a line written as an optional run of markers, optional whitespace, *)
(* an alias of the table in any letter case, an optional run of markers    *)
(* and an optional colon resolves to the canonical key of that alias; and  *)
(* every alias of the table has exactly one key, one of the five.          *)
(***************************************************************************)
C17_DecoratedAliasResolves ==
    /\ \A alias \in AliasNames :
          Cardinality({a.key : a \in {a \in SECTION_ALIASES : a.alias = alias}}) = 1
    /\ \A a \in SECTION_ALIASES : a.key \in REQUIRED_KEYS
    /\ (pc = "heading_done" /\ line_parts.phrase \in AliasNames) =>
          /\ current_key \in REQUIRED_KEYS
          /\ [alias |-> line_parts.phrase, key |-> current_key] \in SECTION_ALIASES
          /\ outcome.value # <<>>
          /\ Lower(outcome.value[1]) = line_parts.phrase

C17_Witness ==
    /\ pc = "heading_done"
    /\ line_parts.phrase = <<"p", "u", "j", "a", " ", "n", "a", "m", "e">>
    /\ line_parts.spelt = <<"P", "U", "J", "A", " ", "N", "A", "M", "E">>
    /\ line_parts.lead = <<"*", "*">>
    /\ line_parts.space = <<" ">>
    /\ line_parts.trail = <<"*", "*">>
    /\ line_parts.colon = <<":">>
    /\ current_key = "ritual_name"

(***************************************************************************)
(* The entry the driver has just fetched, and what the manifest says.      *)
(***************************************************************************)
BasePath == <<Parent(ManifestPath)>>

\* _read_entry_text has just run for entry idx + 1
JustFetched ==
    \/ pc = "ingest_build"
    \/ pc = "ingest_done" /\ stage = "fetch"

LocalExists(entry) ==
    /\ resolve_path(entry, BasePath) # <<>>
    /\ Exists(resolve_path(entry, BasePath)[1])

\* local_path is specified but the file is not on disk
LocalMissing(entry) ==
    /\ entry.local_path # <<>>
    /\ ~Exists(resolve_path(entry, BasePath)[1])

\* the I/O made for the entry just fetched
OpsOfCurrent == {io_log[n].op : n \in {n \in 1..Len(io_log) : io_log[n].entry = idx + 1}}

\* what the record of an entry is, from the manifest item alone
RecordOf(item) ==
    LET entry == MakeEntry(item)
        got == read_entry_text(entry, BasePath, fetcher, has_pdfminer)
    IN  build_corpus_record(entry, got.value)

\* an entry goes through fetch, parse and chunking without an error
Ingestible(item) ==
    /\ read_entry_text(MakeEntry(item), BasePath, fetcher, has_pdfminer).kind = "return"
    /\ RecordOf(item).kind = "return"

FetchIOErrors == {"URLError", "FileNotFoundError", "OSError"}

(***************************************************************************)
(* C6: if loading the manifest, or fetching, parsing or chunking any       *)
(* entry fails, ingest_manifest raises and the output file is exactly what *)
(* it was before the call, also when earlier entries were built.           *)
(***************************************************************************)
C6_NoPartialCorpus ==
    /\ pc \in {"ingest_load", "ingest_fetch", "ingest_build"} => out_file = out_before
    /\ (pc = "ingest_done" /\ outcome.kind = "raise") =>
          /\ stage \in {"load", "fetch", "build"}
          /\ out_file = out_before
    /\ (pc = "ingest_done" /\ outcome.kind = "return") =>
          /\ load_manifest(manifest_file).kind = "return"
          /\ \A k \in 1..Len(manifest_file.items) : Ingestible(manifest_file.items[k])

C6_Witness ==
    /\ pc = "ingest_done"
    /\ outcome.kind = "raise"
    /\ stage = "build"
    /\ idx >= 1
    /\ Len(records) = idx
    /\ out_before = <<OldLines>>

C8_FetchPriority ==
    JustFetched =>
        /\ LocalExists(Entry) =>
              /\ OpsOfCurrent = {"read_local"}
              /\ pc = "ingest_build" =>
                    fetched = FileAt(resolve_path(Entry, BasePath)[1]).content
        /\ "override" \in OpsOfCurrent => (~LocalExists(Entry) /\ fetcher # "None")
        /\ (~LocalExists(Entry) /\ fetcher # "None") =>
              /\ OpsOfCurrent = {"override"}
              /\ pc = "ingest_build"
              /\ fetched = OverrideDoc
        /\ "urlopen" \in OpsOfCurrent =>
              (~LocalExists(Entry) /\ fetcher = "None" /\ Entry.source_url # "")
        /\ (~LocalExists(Entry) /\ fetcher = "None" /\ Entry.source_url # "") =>
              /\ OpsOfCurrent = {"urlopen"}
              /\ pc = "ingest_build" => fetched = RemoteAt(Entry.source_url).content
        /\ (~LocalExists(Entry) /\ fetcher = "None" /\ Entry.source_url = "") =>
              /\ OpsOfCurrent = {}
              /\ pc = "ingest_done"
              /\ outcome.kind = "raise"
              /\ outcome.error = "ManifestLoadError"

C8_Witness ==
    /\ pc = "ingest_build"
    /\ LocalExists(Entry)
    /\ fetcher # "None"
    /\ Entry.source_url # ""
    /\ fetched = LocalDoc
    /\ idx >= 1

(***************************************************************************)
(* C9: when ingest_manifest succeeds on a manifest of n entries the output *)
(* file holds exactly n lines, line k being the JSON object of the record  *)
(* built from entry k (its source_id is the id of entry k), whatever the   *)
(* file held before; the returned list holds the same n records in the     *)
(* same order.                                                             *)
(***************************************************************************)
C9_OutputMatchesManifest ==
    (pc = "ingest_done" /\ outcome.kind = "return") =>
        LET items == manifest_file.items
        IN  /\ out_file # <<>>
            /\ Len(out_file[1]) = Len(items)
            /\ Len(outcome.value) = Len(items)
            /\ \A k \in 1..Len(items) :
                  /\ out_file[1][k] = to_json(RecordOf(items[k]).value)
                  /\ DictGet(out_file[1][k], "source_id", "") = DictGet(items[k].fields, "id", "")
                  /\ outcome.value[k] = RecordOf(items[k]).value

C9_Witness ==
    /\ pc = "ingest_done"
    /\ outcome.kind = "return"
    /\ Len(manifest_file.items) = 2
    /\ out_before = <<OldLines>>
    /\ outcome.value[1].source_id # outcome.value[2].source_id


(***************************************************************************)
(* What handling one entry alone comes to: the exception of its fetch, or  *)
(* else of its build, or nothing.  For an item of the manifest file, the   *)
(* exception of the loader's conversion comes before these.                *)
(***************************************************************************)
Fault(result) == <<[error |-> result.error, message |-> result.message]>>

FailureOf(entry) ==
    LET reading == read_entry_text(entry, base_path, fetcher, has_pdfminer)
    IN  IF reading.kind = "raise" THEN Fault(reading)
        ELSE LET building == build_corpus_record(entry, reading.value)
             IN  IF building.kind = "raise" THEN Fault(building) ELSE <<>>

ItemFailureOf(raw) ==
    IF EntryOf(raw).kind = "raise" THEN Fault(EntryOf(raw))
    ELSE FailureOf(EntryOf(raw).value)

\* the fetches are logged entry after entry, each after the builds before it
FetchesInOrder ==
    /\ \A n \in 1..Len(io_log) :
          /\ io_log[n].entry <= Len(records) + 1
          /\ io_log[n].entry <= Len(entries)
          /\ \A m \in 1..n : io_log[m].entry <= io_log[n].entry
    /\ Len(records) = idx
    /\ pc = "ingest_build" => idx < Len(entries)

\* the output is touched only once every entry has its record
OutputAfterBuilds ==
    /\ pc \in {"ingest_load", "ingest_fetch", "ingest_build"} => out_file = out_before
    /\ pc = "ingest_write" =>
          /\ load_manifest(manifest_file).kind = "return"
          /\ Len(records) = Len(entries)
    /\ (pc = "ingest_done" /\ outcome.kind = "raise") => out_file = out_before

(***************************************************************************)
(* C20 as stated, an entry failing when the loader rejects its item or its *)
(* fetch or its build raises: the fetches follow the manifest order, each  *)
(* after the builds of the entries before it; the error raised is that of  *)
(* the lowest-index failing entry, no later entry is fetched, and the      *)
(* output is opened only after every entry is built.                       *)
(***************************************************************************)
C20_Original ==
    /\ FetchesInOrder
    /\ OutputAfterBuilds
    /\ (pc = "ingest_done" /\ manifest_file.kind = "json" /\ manifest_file.is_list) =>
          \A fs \in {[n \in 1..Len(manifest_file.items) |->
                         ItemFailureOf(manifest_file.items[n])]} :
              /\ outcome.kind = "return" <=> \A n \in 1..Len(fs) : fs[n] = <<>>
              /\ outcome.kind = "raise" =>
                    \E i \in 1..Len(fs) :
                        /\ fs[i] = Fault(outcome)
                        /\ \A n \in 1..(i - 1) : fs[n] = <<>>
                        /\ \A n \in 1..Len(io_log) : io_log[n].entry <= i

(***************************************************************************)
(* C20 amended: the manifest is loaded as a whole first, and an item the   *)
(* loader rejects ends the run with the loader's error before any fetch,   *)
(* whatever its index.  For a manifest that loads, the fetches follow the  *)
(* manifest order, each after the builds of the entries before it; the     *)
(* error raised is that of the lowest-index entry whose fetch or build     *)
(* raises, no later entry is fetched, and the output is opened only after  *)
(* every entry is built.                                                   *)
(***************************************************************************)
C20_StrictlySequential ==
    /\ FetchesInOrder
    /\ OutputAfterBuilds
    /\ (pc = "ingest_done" /\ load_manifest(manifest_file).kind = "raise") =>
          /\ outcome.kind = "raise"
          /\ Fault(outcome) = Fault(load_manifest(manifest_file))
          /\ io_log = <<>>
          /\ records = <<>>
    /\ (pc = "ingest_done" /\ load_manifest(manifest_file).kind = "return") =>
          \A fs \in {[n \in 1..Len(entries) |-> FailureOf(entries[n])]} :
              /\ outcome.kind = "return" <=> \A n \in 1..Len(fs) : fs[n] = <<>>
              /\ outcome.kind = "raise" =>
                    /\ idx < Len(entries)
                    /\ fs[idx + 1] = Fault(outcome)
                    /\ \A n \in 1..idx : fs[n] = <<>>
                    /\ \A n \in 1..Len(io_log) : io_log[n].entry <= idx + 1

C20_Witness ==
    /\ pc = "ingest_done"
    /\ outcome.kind = "raise"
    /\ Len(entries) = 2
    /\ idx = 1
    /\ stage = "fetch"
    /\ \E n \in 1..Len(io_log) : io_log[n].entry = 1
    /\ \E n \in 1..Len(io_log) : io_log[n].entry = 2
    /\ out_before = <<OldLines>>


(***************************************************************************)
(* C21: the lines before the first recognized heading are buffered while   *)
(* there is no current section and are discarded when that heading is      *)
(* read: no section receives them, and the sections and the outcome,       *)
(* missing sections included, are those of the document that starts at     *)
(* its first heading.                                                      *)
(***************************************************************************)
\* the document from line n on
DocFrom(n) == SubSeq(lines, n, Len(lines))

C21_PreambleDiscarded ==
    \A hs \in {HeadingIndexes} :
        hs # <<>> =>
            /\ (pc = "parse_loop" /\ pos < hs[1]) =>
                  /\ current_key = NoKey
                  /\ sections = <<>>
                  /\ buffer = SubSeq(lines, 1, pos)
            /\ (pc = "parse_loop" /\ pos = hs[1]) =>
                  /\ current_key = Canonical(lines[hs[1]])
                  /\ sections = <<>>
                  /\ buffer = <<>>
            /\ pc = "parse_done" =>
                  /\ sections = ParseEnd(ParseFold(ParseStart, DocFrom(hs[1])))
                  /\ outcome = parse_structured_sections(Join(DocFrom(hs[1]), NL))
                  /\ outcome.kind = "return" =>
                        \A i \in 1..Len(outcome.value) : \A n \in 1..(hs[1] - 1) :
                            Strip(lines[n]) # <<>> =>
                                lines[n] \notin Range(SplitLines(outcome.value[i].v))

C21_Witness ==
    /\ pc = "parse_done"
    /\ outcome.kind = "return"
    /\ HeadingIndexes # <<>>
    /\ HeadingIndexes[1] > 1
    /\ Strip(lines[1]) # <<>>


(***************************************************************************)
(* C22: a line recognized as a heading through the inline colon form       *)
(* switches the section and contributes nothing else: the outcome is that  *)
(* of the document whose inline headings carry no text after the colon,    *)
(* the text after the colon is in no section of a result, and a key none   *)
(* of whose body lines has a visible character is listed as missing even   *)
(* when its inline heading line carries text.                              *)
(***************************************************************************)
\* the document with every inline heading cut after its colon
InlineCut ==
    [i \in 1..Len(lines) |->
        IF InlineForm(lines[i])
        THEN SubSeq(Strip(lines[i]), 1, Find(Strip(lines[i]), ":") + 1)
        ELSE lines[i]]

C22_InlineTextDropped ==
    pc = "parse_done" =>
        /\ outcome = parse_structured_sections(Join(InlineCut, NL))
        /\ \A i \in 1..Len(lines) :
              InlineForm(lines[i]) =>
                  /\ ~HasContent(Canonical(lines[i])) =>
                        /\ outcome.kind = "raise"
                        /\ Canonical(lines[i]) \in Range(outcome.listed)
                  /\ (outcome.kind = "return" /\ Strip(InlineText(lines[i])) # <<>>) =>
                        \A n \in 1..Len(outcome.value) :
                            \A l \in Range(SplitLines(outcome.value[n].v)) :
                                Strip(l) # Strip(InlineText(lines[i]))

C22_Witness ==
    /\ pc = "parse_done"
    /\ outcome.kind = "raise"
    /\ \E i \in 1..Len(lines) :
          /\ InlineForm(lines[i])
          /\ Strip(InlineText(lines[i])) # <<>>
          /\ ~HasContent(Canonical(lines[i]))
          /\ Canonical(lines[i]) \in Range(outcome.listed)
          /\ \A j \in 1..Len(lines) : Canonical(lines[j]) = Canonical(lines[i]) => j = i
    /\ Len(outcome.listed) = 2

====
